---- MODULE Spec2Model ----
(***************************************************************************)
(* E-Challan backend: violation fines, payment strategies, notification    *)
(* fan-out and the facade / controller handlers that persist Challan and   *)
(* Payment documents.  Every handler is an async function: it is modelled  *)
(* as a process that takes one step per awaited persistence operation, so  *)
(* that requests interleave exactly where the code awaits.                 *)
(*                                                                         *)
(* Money: a fine is a whole number; the fields of a Payment (amount, fee,  *)
(* totalAmount) are kept in thousandths so that 2.9% and 1.5% are exact.   *)
(***************************************************************************)
EXTENDS Integers, Sequences, FiniteSets, TLC

VARIABLES challans, payments, observers, notified, lastPublish, procs,
          configuration, userRequests, now

vars == <<challans, payments, observers, notified, lastPublish, procs,
          configuration, userRequests, now>>

\* the state of the components that stand beside the request handlers: the
\* ConfigurationManager singleton, the rate limiter's map and the clock
utilities == <<configuration, userRequests, now>>

----------------------------------------------------------------------------
(* Bounds of the model *)

MaxChallans == 2

MaxPayments == 2

MaxObservers == 3
MaxEvents == 2

MaxConfigObjects == 2

\* the longest stack of permission decorators, the last instant of the
\* clock, and the seven days of a temporary_admin grant in clock ticks
MaxDecorators == 2
MaxNow == 3
SevenDays == 2

\* the limits handed to rateLimitByRole: requests per window for each role,
\* and the window in clock ticks
CitizenRequests == 2
OfficerRequests == 3
AdminRequests == 3
Window == 2

----------------------------------------------------------------------------
(* Small helpers *)

Max(a, b) == IF a >= b THEN a ELSE b

Min(a, b) == IF a <= b THEN a ELSE b

RECURSIVE Count(_, _)
Count(s, x) ==
    IF s = <<>> THEN 0
    ELSE (IF Head(s) = x THEN 1 ELSE 0) + Count(Tail(s), x)

RECURSIVE Filter(_, _)
Filter(s, x) ==
    IF s = <<>> THEN <<>>
    ELSE IF Head(s) = x THEN Filter(Tail(s), x)
         ELSE <<Head(s)>> \o Filter(Tail(s), x)

Undefined == "undefined"

----------------------------------------------------------------------------
(* Users: the User collection is only read by the handlers modelled here.  *)

NoUser == "u0"

UserIds == {"c1", "c2", "o1", "a1"}

users ==
    [u \in UserIds |->
        CASE u = "c1" -> [role |-> "citizen", email |-> "c1@mail", accessLevel |-> "standard"]
          [] u = "c2" -> [role |-> "citizen", email |-> "c2@mail", accessLevel |-> "standard"]
          [] u = "o1" -> [role |-> "officer", email |-> "o1@mail", accessLevel |-> "standard"]
          [] u = "a1" -> [role |-> "admin", email |-> "a1@mail", accessLevel |-> "super"]]

Emails == {"c1@mail", "c2@mail", "o1@mail", "nobody@mail"}

\* User.findById
FindUserById(id) == IF id \in UserIds THEN id ELSE NoUser

\* User.findOne({ email, role: 'citizen' })
FindCitizenByEmail(email) ==
    IF \E u \in UserIds : users[u].email = email /\ users[u].role = "citizen"
    THEN CHOOSE u \in UserIds : users[u].email = email /\ users[u].role = "citizen"
    ELSE NoUser

CitizenPermissions ==
    {"view_own_challans", "make_payments", "update_profile",
     "view_payment_history", "dispute_challan"}

OfficerPermissions ==
    {"create_challans", "view_own_challans", "update_own_challans",
     "upload_evidence", "search_citizens", "view_reports"}

\* Admin.getPermissions with the permission updateChallan asks of non-officers
AdminPermissionsMutUpdateAll(accessLevel) ==
    {"view_all_challans", "delete_challans", "manage_users",
     "view_system_reports", "system_configuration", "update_all_challans"}
    \cup (IF accessLevel = "super" THEN {"manage_admins", "system_maintenance"} ELSE {})

\* Admin.getPermissions with the permission refundPayment asks for
AdminPermissionsMutRefunds(accessLevel) ==
    {"view_all_challans", "delete_challans", "manage_users",
     "view_system_reports", "system_configuration", "process_refunds"}
    \cup (IF accessLevel = "super" THEN {"manage_admins", "system_maintenance"} ELSE {})

AdminPermissions(accessLevel) ==
    {"view_all_challans", "delete_challans", "manage_users",
     "view_system_reports", "system_configuration"}
    \cup (IF accessLevel = "super" THEN {"manage_admins", "system_maintenance"} ELSE {})

\* user.toOOPInstance().getPermissions(): the permissions of the user's role
GetPermissions(u) ==
    CASE users[u].role = "citizen" -> CitizenPermissions
      [] users[u].role = "officer" -> OfficerPermissions
      [] users[u].role = "admin" -> AdminPermissions(users[u].accessLevel)

----------------------------------------------------------------------------
(* Violation factory and fine rules *)

\* violationType.toLowerCase() of the types the callers send
ToLowerCase(s) ==
    CASE s = "Speeding" -> "speeding"
      [] s = "Wrong Parking" -> "wrong parking"
      [] s = "Parking" -> "parking"
      [] s = "No Helmet" -> "no helmet"
      [] s = "Helmet" -> "helmet"
      [] s = "Red Light" -> "red light"
      [] s = "Mobile Usage" -> "mobile usage"
      [] s = "Other" -> "other"
      [] s = "InvalidType" -> "invalidtype"
      [] OTHER -> s

\* ViolationFactory.createViolation: the class chosen, or "throw"
CreateViolationMutUnknownAsSpeeding(violationType) ==
    LET t == ToLowerCase(violationType) IN
    CASE t = "speeding" -> "SpeedingViolation"
      [] t \in {"wrong parking", "parking"} -> "ParkingViolation"
      [] t \in {"no helmet", "helmet"} -> "HelmetViolation"
      [] t = "red light" -> "RedLightViolation"
      [] OTHER -> "SpeedingViolation"

CreateViolation(violationType) ==
    LET t == ToLowerCase(violationType) IN
    CASE t = "speeding" -> "SpeedingViolation"
      [] t \in {"wrong parking", "parking"} -> "ParkingViolation"
      [] t \in {"no helmet", "helmet"} -> "HelmetViolation"
      [] t = "red light" -> "RedLightViolation"
      [] OTHER -> "throw"

\* x * 1.5 for the base fines of the rules (all even)
TimesOneAndHalf(x) == (x * 3) \div 2

SpeedingFineMutAtLeast(d) ==
    LET speedDifference == d.actualSpeed - d.speedLimit IN
    IF speedDifference >= 20 THEN 500 * 2
    ELSE IF speedDifference >= 10 THEN TimesOneAndHalf(500)
    ELSE 500

ParkingFineMutAtLeast(d) ==
    LET baseFine == CASE d.zoneType = "no-parking" -> 200
                      [] d.zoneType = "handicap" -> 1000
                      [] d.zoneType = "fire-lane" -> 1500
                      [] d.zoneType = "expired-meter" -> 100
                      [] OTHER -> 200
    IN IF d.duration >= 120 THEN TimesOneAndHalf(baseFine) ELSE baseFine

HelmetFineMutFlat(d) == 300

RedLightFineMutAtLeast(d) ==
    IF d.timeAfterRed >= 3 THEN TimesOneAndHalf(1000) ELSE 1000

SpeedingFineMutNoDouble(d) ==
    LET speedDifference == d.actualSpeed - d.speedLimit IN
    IF speedDifference > 20 THEN 500
    ELSE IF speedDifference > 10 THEN TimesOneAndHalf(500)
    ELSE 500

SpeedingFine(d) ==
    LET speedDifference == d.actualSpeed - d.speedLimit IN
    IF speedDifference > 20 THEN 500 * 2
    ELSE IF speedDifference > 10 THEN TimesOneAndHalf(500)
    ELSE 500

ParkingFine(d) ==
    LET baseFine == CASE d.zoneType = "no-parking" -> 200
                      [] d.zoneType = "handicap" -> 1000
                      [] d.zoneType = "fire-lane" -> 1500
                      [] d.zoneType = "expired-meter" -> 100
                      [] OTHER -> 200
    IN IF d.duration > 120 THEN TimesOneAndHalf(baseFine) ELSE baseFine

\* passengerCount || 1 in the constructor
HelmetFine(d) ==
    300 * (IF d.passengerCount = 0 THEN 1 ELSE d.passengerCount)

RedLightFine(d) ==
    IF d.timeAfterRed > 3 THEN TimesOneAndHalf(1000) ELSE 1000

\* violation.calculateFine() of the class the factory chose
CalculateFine(class, d) ==
    CASE class = "SpeedingViolation" -> SpeedingFine(d)
      [] class = "ParkingViolation" -> ParkingFine(d)
      [] class = "HelmetViolation" -> HelmetFine(d)
      [] class = "RedLightViolation" -> RedLightFine(d)

\* violation.getViolationType()
GetViolationType(class) ==
    CASE class = "SpeedingViolation" -> "Speeding"
      [] class = "ParkingViolation" -> "Wrong Parking"
      [] class = "HelmetViolation" -> "No Helmet"
      [] class = "RedLightViolation" -> "Red Light"

----------------------------------------------------------------------------
(* Payment strategies.  A details object is abstracted to what the          *)
(* validators read: the lengths of cardNumber, cvv and pin (0 when the      *)
(* field is missing or empty), whether holderName is present, and the       *)
(* characters of upiId.                                                      *)

Includes(str, ch) == \E i \in DOMAIN str : str[i] = ch

\* CreditCardPaymentStrategy.validatePaymentDetails: "" or the error thrown
CreditCardValidate(d) ==
    IF d.cardNumber = 0 \/ d.cardNumber < 16 THEN "Invalid card number"
    ELSE IF d.cvv = 0 \/ d.cvv < 3 THEN "Invalid CVV"
    ELSE IF ~d.holderName THEN "Card holder name required"
    ELSE ""

DebitCardValidateMutNoPin(d) ==
    IF d.cardNumber = 0 \/ d.cardNumber < 16 THEN "Invalid card number"
    ELSE ""

\* DebitCardPaymentStrategy.validatePaymentDetails
DebitCardValidate(d) ==
    IF d.cardNumber = 0 \/ d.cardNumber < 16 THEN "Invalid card number"
    ELSE IF d.pin = 0 \/ d.pin # 4 THEN "Invalid PIN"
    ELSE ""

\* UPIPaymentStrategy.validatePaymentDetails
UPIValidate(d) ==
    IF d.upiId = <<>> \/ ~Includes(d.upiId, "@") THEN "Invalid UPI ID"
    ELSE IF d.pin = 0 \/ d.pin # 4 THEN "Invalid UPI PIN"
    ELSE ""

CreditCardFeeMutMin(amount) == Min(amount * 29, 10 * 1000)

\* getTransactionFee, in thousandths: Math.max(amount * 0.029, 10)
CreditCardFee(amount) == Max(amount * 29, 10 * 1000)

\* Math.min(amount * 0.015, 25)
DebitCardFee(amount) == Min(amount * 15, 25 * 1000)

UPIFee(amount) == 0

StrategyFailure(msg) ==
    [success |-> FALSE, error |-> msg, fee |-> 0, amount |-> 0,
     paymentMethod |-> Undefined, gateway |-> Undefined]

\* <Strategy>.processPayment: validate, then fee and total (thousandths)
StrategyResult(err, amount, fee, method, gateway) ==
    IF err # "" THEN StrategyFailure(err)
    ELSE [success |-> TRUE, error |-> "", fee |-> fee, amount |-> amount * 1000 + fee,
          paymentMethod |-> method, gateway |-> gateway]

\* PaymentProcessor.processPayment with the default case accepting any method
PaymentProcessorMutNoDefault(amount, paymentDetails, paymentMethod) ==
    CASE paymentMethod = "credit_card" ->
            StrategyResult(CreditCardValidate(paymentDetails), amount,
                           CreditCardFee(amount), "credit_card", "stripe")
      [] paymentMethod = "debit_card" ->
            StrategyResult(DebitCardValidate(paymentDetails), amount,
                           DebitCardFee(amount), "debit_card", "razorpay")
      [] OTHER ->
            StrategyResult("", amount, UPIFee(amount), "upi", "payu")

\* PaymentProcessor.processPayment: a thrown error is success = FALSE here,
\* every caller wraps the call in try/catch
PaymentProcessor(amount, paymentDetails, paymentMethod) ==
    CASE paymentMethod = "credit_card" ->
            StrategyResult(CreditCardValidate(paymentDetails), amount,
                           CreditCardFee(amount), "credit_card", "stripe")
      [] paymentMethod = "debit_card" ->
            StrategyResult(DebitCardValidate(paymentDetails), amount,
                           DebitCardFee(amount), "debit_card", "razorpay")
      [] paymentMethod = "upi" ->
            StrategyResult(UPIValidate(paymentDetails), amount,
                           UPIFee(amount), "upi", "payu")
      [] OTHER -> StrategyFailure("Unsupported payment method")

----------------------------------------------------------------------------
(* Notification subject.  A channel is an observer object; `throwing` is   *)
(* the set of observers whose update() throws on this event.               *)

Channels == {"email", "sms", "log"}

\* notifyObservers without the try/catch around observer.update
\* the channels that fail during one publish: none, one, all
Throwing == {{}, {"sms"}, Channels}

RECURSIVE NotifyObserversMutReversed(_, _)
NotifyObserversMutReversed(obs, throwing) ==
    IF obs = <<>> THEN [invoked |-> <<>>, raised |-> FALSE]
    ELSE LET rest == NotifyObserversMutReversed(Tail(obs), throwing)
         IN [invoked |-> rest.invoked \o <<Head(obs)>>, raised |-> rest.raised]

RECURSIVE NotifyObserversMutNoCatch(_, _)
NotifyObserversMutNoCatch(obs, throwing) ==
    IF obs = <<>> THEN [invoked |-> <<>>, raised |-> FALSE]
    ELSE IF Head(obs) \in throwing
         THEN [invoked |-> <<Head(obs)>>, raised |-> TRUE]
         ELSE LET rest == NotifyObserversMutNoCatch(Tail(obs), throwing)
              IN [invoked |-> <<Head(obs)>> \o rest.invoked, raised |-> rest.raised]

\* ChallanNotificationSubject.notifyObservers: forEach observer, update() is
\* called inside try/catch; the result lists the observers invoked, in order,
\* and whether an error left the call
RECURSIVE NotifyObservers(_, _)
NotifyObservers(obs, throwing) ==
    IF obs = <<>> THEN [invoked |-> <<>>, raised |-> FALSE]
    ELSE LET rest == NotifyObservers(Tail(obs), throwing)
         IN [invoked |-> <<Head(obs)>> \o rest.invoked, raised |-> rest.raised]

\* the deliveries each channel has seen, after the observers in `invoked`
\* received `ev`
RECURSIVE Deliver(_, _, _)
Deliver(log, invoked, ev) ==
    IF invoked = <<>> THEN log
    ELSE Deliver([log EXCEPT ![Head(invoked)] = Append(@, ev)], Tail(invoked), ev)

Event(kind, challanId) == [event |-> kind, challanId |-> challanId]

\* the record of the last direct notifyObservers call: the observers
\* registered when it ran, those whose update() threw, those invoked, and
\* whether an error left the call
NoPublish == [registered |-> <<>>, throwing |-> {}, invoked |-> <<>>, raised |-> FALSE]

\* the record of a notifyObservers call with result n
Published(registered, throwing, n) ==
    [registered |-> registered, throwing |-> {c \in Channels : c \in throwing},
     invoked |-> n.invoked, raised |-> n.raised]

----------------------------------------------------------------------------
(* Persisted documents and schema validation *)

ViolationTypeEnum ==
    {"Speeding", "Red Light", "Wrong Parking", "No Helmet", "Mobile Usage", "Other"}

ZoneTypeEnum == {"no-parking", "handicap", "fire-lane", "expired-meter"}

PaymentMethodEnum == {"credit_card", "debit_card", "upi", "net_banking", "cash"}

\* new Challan({...}) in createChallan; status takes the schema default
NewChallan(citizen, officerId, violationType, fineAmount) ==
    [citizenId |-> citizen, officerId |-> officerId, violationType |-> violationType,
     fineAmount |-> fineAmount, status |-> "pending", paymentDate |-> FALSE,
     disputeReason |-> FALSE]

\* the validators mongoose runs when a Challan is saved
ChallanValid(doc, data) ==
    /\ doc.violationType \in ViolationTypeEnum
    /\ data.zoneType = Undefined \/ data.zoneType \in ZoneTypeEnum

\* paymentSchema.pre('save') without the recomputation of the total
PaymentPreSaveMutKeepTotal(doc, amountOrFeeModified) == doc

\* paymentSchema.pre('save'): the total is recomputed when amount or fee is
\* modified, as they are on a new document
PaymentPreSave(doc, amountOrFeeModified) ==
    IF amountOrFeeModified THEN [doc EXCEPT !.totalAmount = doc.amount + doc.fee]
    ELSE doc

PaymentValid(doc) == doc.paymentMethod \in PaymentMethodEnum

----------------------------------------------------------------------------
(* Requests.  procs[p] is one request slot: the handler it runs (op), where *)
(* it is (pc), the request (req), the handler's locals (loc) and, once it   *)
(* has answered, the result (res).                                          *)

Procs == {"p1", "p2"}

NoRes == [success |-> FALSE, status |-> 0, error |-> ""]

IdleProc == [pc |-> "idle", op |-> "none", req |-> <<>>, loc |-> <<>>, res |-> NoRes]

Ok == [success |-> TRUE, status |-> 200, error |-> ""]

Fail(status, msg) == [success |-> FALSE, status |-> status, error |-> msg]

Finish(p, op, req, loc, res) ==
    /\ UNCHANGED utilities
    /\ procs' = [procs EXCEPT ![p] = [pc |-> "done", op |-> op, req |-> req,
                                   loc |-> loc, res |-> res]]

Goto(p, pc, op, req, loc) ==
    /\ UNCHANGED utilities
    /\ procs' = [procs EXCEPT ![p] = [pc |-> pc, op |-> op, req |-> req,
                                   loc |-> loc, res |-> NoRes]]

ChallanIds == 1..MaxChallans

\* Challan.findById
ChallanExists(id) == id \in DOMAIN challans

\* ConfigurationManager.instance is unset and no object has been constructed
NoConfiguration == [instance |-> 0, objects |-> <<>>]

\* userRequests = new Map(): no user has an entry
NoEntry == [has |-> FALSE, count |-> 0, resetTime |-> 0]

InitUtilities ==
    /\ configuration = NoConfiguration
    /\ userRequests = [u \in UserIds |-> NoEntry]
    /\ now = 0

Init ==
    /\ challans = <<>>
    /\ payments = <<>>
    /\ observers = <<"email", "sms", "log">>
    /\ notified = [c \in Channels |-> <<>>]
    /\ lastPublish = NoPublish
    /\ procs = [p \in Procs |-> IdleProc]
    /\ InitUtilities

\* the response has been sent: the slot is free again
Return(p) ==
    /\ procs[p].pc = "done"
    /\ procs' = [procs EXCEPT ![p] = IdleProc]
    /\ UNCHANGED <<challans, payments, observers, notified, lastPublish, utilities>>

----------------------------------------------------------------------------
(* EChallanFacade.createChallan *)

NoAttrs ==
    [speedLimit |-> 0, actualSpeed |-> 0, zoneType |-> Undefined, duration |-> 0,
     passengerCount |-> 0, timeAfterRed |-> 0]

Speeding(limit, actual) ==
    [NoAttrs EXCEPT !.speedLimit = limit, !.actualSpeed = actual]
        @@ [violationType |-> "Speeding"]

Parking(zone, minutes) ==
    [NoAttrs EXCEPT !.zoneType = zone, !.duration = minutes]
        @@ [violationType |-> "Wrong Parking"]

OfType(type) == NoAttrs @@ [violationType |-> type]

Helmet(passengerCount) ==
    [NoAttrs EXCEPT !.passengerCount = passengerCount]
        @@ [violationType |-> "No Helmet"]

RedLight(timeAfterRed) ==
    [NoAttrs EXCEPT !.timeAfterRed = timeAfterRed]
        @@ [violationType |-> "Red Light"]

\* a violation of the kind GenericViolation is written for; customFine 0
\* stands for a customFine that is absent or falsy
Generic(customFine) == OfType("Other") @@ [customFine |-> customFine]

\* the violations the model issues
ViolationInputs ==
    {Speeding(50, 90), Speeding(50, 58), Parking("handicap", 150), OfType("InvalidType")}

CreateChallanError(officerId, citizenEmail, violationType) ==
    LET officer == FindUserById(officerId)
        citizen == FindCitizenByEmail(citizenEmail)
    IN  IF officer = NoUser THEN "Officer not found"
        ELSE IF "create_challans" \notin GetPermissions(officer)
             THEN "Officer not authorized to create challans"
        ELSE IF citizen = NoUser THEN "Citizen not found"
        ELSE IF CreateViolation(violationType) = "throw" THEN "Unknown violation type"
        ELSE ""

CreateChallan(p, officerId, citizenEmail, data, throwing) ==
    LET req == [officerId |-> officerId, citizenEmail |-> citizenEmail, data |-> data]
        err == CreateChallanError(officerId, citizenEmail, data.violationType)
        class == CreateViolation(data.violationType)
        doc == NewChallan(FindCitizenByEmail(citizenEmail), officerId,
                          GetViolationType(class), CalculateFine(class, data))
    IN  /\ procs[p].pc = "idle"
        /\ UNCHANGED <<payments, observers>>
        /\ IF err # ""
           THEN /\ Finish(p, "issue", req, <<>>, Fail(400, err))
                /\ UNCHANGED <<challans, notified, lastPublish>>
           ELSE \E saved \in BOOLEAN :
                  IF saved /\ ChallanValid(doc, data) /\ Len(challans) < MaxChallans
                  THEN LET n == NotifyObservers(observers, throwing)
                           id == Len(challans) + 1
                       IN /\ challans' = Append(challans, doc)
                          /\ notified' = Deliver(notified, n.invoked,
                                                 Event("challan_created", id))
                          /\ lastPublish' = Published(observers, throwing, n)
                          /\ Finish(p, "issue", req, id,
                                    IF n.raised THEN Fail(400, "Observer error") ELSE Ok)
                  ELSE /\ Finish(p, "issue", req, <<>>, Fail(400, "PersistenceError"))
                       /\ UNCHANGED <<challans, notified, lastPublish>>

----------------------------------------------------------------------------
(* PaymentController.processPayment and EChallanFacade.processPayment *)

DetailsOk ==
    [cardNumber |-> 16, cvv |-> 3, holderName |-> TRUE, pin |-> 4,
     upiId |-> <<"u", "@", "b">>]

DetailsBad ==
    [cardNumber |-> 15, cvv |-> 3, holderName |-> TRUE, pin |-> 3,
     upiId |-> <<"u", "b">>]

PayReq(user, challanId, method, details) ==
    [user |-> user, challanId |-> challanId, method |-> method, details |-> details]

\* the checks of the controller before it calls the facade: "" or the answer
PayControllerError(user, challanId) ==
    IF FindUserById(user) = NoUser THEN Fail(500, "TypeError")
    ELSE IF "make_payments" \notin GetPermissions(user) THEN Fail(403, "Access denied")
    ELSE IF ~ChallanExists(challanId) THEN Fail(404, "Challan not found")
    ELSE IF challans[challanId].citizenId # user THEN Fail(403, "Access denied")
    ELSE IF challans[challanId].status = "paid" THEN Fail(400, "Challan already paid")
    ELSE Ok

\* PaymentController.processPayment up to the call of the facade
PayController(p, user, challanId, method, details) ==
    LET req == PayReq(user, challanId, method, details)
        r == PayControllerError(user, challanId)
    IN  /\ procs[p].pc = "idle"
        /\ IF r.success THEN Goto(p, "pay_facade", "pay", req, <<>>)
           ELSE Finish(p, "pay", req, <<>>, r)
        /\ UNCHANGED <<challans, payments, observers, notified, lastPublish>>

\* a caller invokes EChallanFacade.processPayment directly
PayFacadeCall(p, user, challanId, method, details) ==
    /\ procs[p].pc = "idle"
    /\ Goto(p, "pay_facade", "pay", PayReq(user, challanId, method, details), <<>>)
    /\ UNCHANGED <<challans, payments, observers, notified, lastPublish>>

\* the facade with the ownership check left out
PayFacadeChecksMutNoOwner(user, challanId) ==
    IF FindUserById(user) = NoUser THEN "Citizen not found"
    ELSE IF ~ChallanExists(challanId) THEN "Challan not found"
    ELSE IF challans[challanId].status = "paid" THEN "Challan already paid"
    ELSE ""

\* the facade with the already-paid check left out
PayFacadeChecksMutNoPaid(user, challanId) ==
    IF FindUserById(user) = NoUser THEN "Citizen not found"
    ELSE IF ~ChallanExists(challanId) THEN "Challan not found"
    ELSE IF challans[challanId].citizenId # user THEN "Unauthorized access to challan"
    ELSE ""

\* steps 1 and 2 of the facade, on the challan as it is persisted now
PayFacadeChecks(user, challanId) ==
    IF FindUserById(user) = NoUser THEN "Citizen not found"
    ELSE IF ~ChallanExists(challanId) THEN "Challan not found"
    ELSE IF challans[challanId].citizenId # user THEN "Unauthorized access to challan"
    ELSE IF challans[challanId].status = "paid" THEN "Challan already paid"
    ELSE ""

\* new Payment({...}) of the facade
FacadePaymentDoc(req, fineAmount, paymentResult) ==
    [challanId |-> req.challanId, citizenId |-> req.user,
     amount |-> fineAmount * 1000, fee |-> paymentResult.fee,
     totalAmount |-> paymentResult.amount, paymentMethod |-> req.method,
     gateway |-> paymentResult.gateway, status |-> "completed"]

\* the facade loads the challan, checks it and runs the payment strategy
PayFacadeLoad(p) ==
    LET req == procs[p].req
        err == PayFacadeChecks(req.user, req.challanId)
        fine == challans[req.challanId].fineAmount
        paymentResult == PaymentProcessor(fine, req.details, req.method)
    IN  /\ procs[p].pc = "pay_facade"
        /\ IF err # "" THEN Finish(p, "pay", req, <<>>, Fail(400, err))
           ELSE IF ~paymentResult.success
                THEN Finish(p, "pay", req, <<>>, Fail(400, paymentResult.error))
           ELSE Goto(p, "pay_save_payment", "pay", req,
                     [payment |-> FacadePaymentDoc(req, fine, paymentResult), saved |-> 0])
        /\ UNCHANGED <<challans, payments, observers, notified, lastPublish>>

\* await paymentDoc.save()
PaySavePayment(p) ==
    LET req == procs[p].req
        loc == procs[p].loc
        doc == PaymentPreSave(loc.payment, TRUE)
    IN  /\ procs[p].pc = "pay_save_payment"
        /\ \E saved \in BOOLEAN :
             IF saved /\ PaymentValid(doc) /\ Len(payments) < MaxPayments
             THEN /\ payments' = Append(payments, doc)
                  /\ Goto(p, "pay_save_challan", "pay", req,
                          [loc EXCEPT !.saved = Len(payments) + 1])
             ELSE /\ Finish(p, "pay", req, loc, Fail(400, "PersistenceError"))
                  /\ UNCHANGED payments
        /\ UNCHANGED <<challans, observers, notified, lastPublish>>

\* challan.status = 'paid'; challan.paymentDate = new Date(); await
\* challan.save(), then the notification and the result
PaySaveChallan(p, throwing) ==
    LET req == procs[p].req
        loc == procs[p].loc
    IN  /\ procs[p].pc = "pay_save_challan"
        /\ UNCHANGED <<payments, observers>>
        /\ \E saved \in BOOLEAN :
             IF saved
             THEN LET n == NotifyObservers(observers, throwing)
                  IN /\ challans' = [challans EXCEPT ![req.challanId].status = "paid",
                                                     ![req.challanId].paymentDate = TRUE]
                     /\ notified' = Deliver(notified, n.invoked,
                                            Event("payment_received", req.challanId))
                     /\ lastPublish' = Published(observers, throwing, n)
                     /\ Finish(p, "pay", req, loc,
                               IF n.raised THEN Fail(400, "Observer error") ELSE Ok)
             ELSE /\ Finish(p, "pay", req, loc, Fail(400, "PersistenceError"))
                  /\ UNCHANGED <<challans, notified, lastPublish>>

----------------------------------------------------------------------------
(* Payment gateway adapters and PaymentController.processPaymentWithGateway *)

\* gatewayType.toLowerCase() of the gateway names the callers send
GatewayToLowerCase(g) ==
    CASE g = "Stripe" -> "stripe"
      [] g = "PayPal" -> "paypal"
      [] OTHER -> g

\* PaymentGatewayFactory.createGateway: the adapter, or "throw"
CreateGateway(gatewayType) ==
    LET g == GatewayToLowerCase(gatewayType) IN
    IF g \in {"stripe", "paypal"} THEN g ELSE "throw"

\* <Adapter>.processPayment: Stripe echoes the amount, PayPal's simulated API
\* always reports 500.00; neither sets fee or paymentMethod
GatewayProcessPayment(gateway, amount) ==
    [success |-> TRUE, amount |-> IF gateway = "stripe" THEN amount ELSE 500,
     gateway |-> gateway]

\* <Adapter>.refundPayment: the simulated APIs always succeed
GatewayRefundPayment(gateway, amount) ==
    [success |-> TRUE, amount |-> amount, gateway |-> gateway]

GwReq(user, challanId, method, gatewayType) ==
    [user |-> user, challanId |-> challanId, method |-> method, gatewayType |-> gatewayType]

\* the handler up to payment.save(): it loads the challan, checks it and
\* charges the gateway
GwLoad(p, user, challanId, method, gatewayType) ==
    LET req == GwReq(user, challanId, method, gatewayType)
        challan == challans[challanId]
        gateway == CreateGateway(gatewayType)
        gatewayResult == GatewayProcessPayment(gateway, challan.fineAmount)
        doc == [challanId |-> challanId, citizenId |-> user,
                amount |-> challan.fineAmount * 1000, fee |-> 0,
                totalAmount |-> gatewayResult.amount * 1000, paymentMethod |-> method,
                gateway |-> gatewayResult.gateway, status |-> "completed"]
    IN  /\ procs[p].pc = "idle"
        /\ IF ~ChallanExists(challanId)
           THEN Finish(p, "gateway", req, <<>>, Fail(404, "Challan not found"))
           ELSE IF challan.citizenId # user
           THEN Finish(p, "gateway", req, <<>>, Fail(403, "Access denied"))
           ELSE IF challan.status = "paid"
           THEN Finish(p, "gateway", req, <<>>, Fail(400, "Challan already paid"))
           ELSE IF gateway = "throw"
           THEN Finish(p, "gateway", req, <<>>, Fail(500, "Unsupported payment gateway"))
           ELSE IF ~gatewayResult.success
           THEN Finish(p, "gateway", req, <<>>, Fail(400, "Payment failed"))
           ELSE Goto(p, "gw_save_payment", "gateway", req, [payment |-> doc, saved |-> 0])
        /\ UNCHANGED <<challans, payments, observers, notified, lastPublish>>

\* await payment.save()
GwSavePayment(p) ==
    LET req == procs[p].req
        loc == procs[p].loc
        doc == PaymentPreSave(loc.payment, TRUE)
    IN  /\ procs[p].pc = "gw_save_payment"
        /\ \E saved \in BOOLEAN :
             IF saved /\ PaymentValid(doc) /\ Len(payments) < MaxPayments
             THEN /\ payments' = Append(payments, doc)
                  /\ Goto(p, "gw_save_challan", "gateway", req,
                          [loc EXCEPT !.saved = Len(payments) + 1])
             ELSE /\ Finish(p, "gateway", req, loc, Fail(500, "PersistenceError"))
                  /\ UNCHANGED payments
        /\ UNCHANGED <<challans, observers, notified, lastPublish>>

\* challan.status = 'paid'; await challan.save(); the answer follows a
\* read-only reload
GwSaveChallan(p) ==
    LET req == procs[p].req
        loc == procs[p].loc
    IN  /\ procs[p].pc = "gw_save_challan"
        /\ \E saved \in BOOLEAN :
             IF saved
             THEN /\ challans' = [challans EXCEPT ![req.challanId].status = "paid",
                                                  ![req.challanId].paymentDate = TRUE]
                  /\ Finish(p, "gateway", req, loc, Ok)
             ELSE /\ Finish(p, "gateway", req, loc, Fail(500, "PersistenceError"))
                  /\ UNCHANGED challans
        /\ UNCHANGED <<payments, observers, notified, lastPublish>>

----------------------------------------------------------------------------
(* PaymentController.retryFailedPayment: one action, a step per await *)

RetryReq(user, paymentId, method, details) ==
    [user |-> user, paymentId |-> paymentId, method |-> method, details |-> details]

\* Payment.findById
PaymentExists(id) == id \in DOMAIN payments

RetryLoad(p, user, paymentId, method, details) ==
    LET req == RetryReq(user, paymentId, method, details)
        originalPayment == payments[paymentId]
        paymentResult == PaymentProcessor(originalPayment.amount \div 1000, details, method)
        doc == [challanId |-> originalPayment.challanId, citizenId |-> user,
                amount |-> originalPayment.amount, fee |-> paymentResult.fee,
                totalAmount |-> paymentResult.amount,
                paymentMethod |-> paymentResult.paymentMethod,
                gateway |-> paymentResult.gateway, status |-> "completed"]
    IN  /\ IF ~PaymentExists(paymentId)
           THEN Finish(p, "retry", req, <<>>, Fail(404, "Payment not found"))
           ELSE IF originalPayment.citizenId # user
           THEN Finish(p, "retry", req, <<>>, Fail(403, "Access denied"))
           ELSE IF originalPayment.status # "failed"
           THEN Finish(p, "retry", req, <<>>, Fail(400, "Can only retry failed payments"))
           ELSE IF ~paymentResult.success
           THEN Finish(p, "retry", req, <<>>, Fail(500, paymentResult.error))
           ELSE Goto(p, "retry_save_payment", "retry", req, [payment |-> doc, saved |-> 0])
        /\ UNCHANGED <<challans, payments>>

\* await newPayment.save()
RetrySavePayment(p) ==
    LET req == procs[p].req
        loc == procs[p].loc
        doc == PaymentPreSave(loc.payment, TRUE)
    IN  \E saved \in BOOLEAN :
          IF saved /\ PaymentValid(doc) /\ Len(payments) < MaxPayments
          THEN /\ payments' = Append(payments, doc)
               /\ Goto(p, "retry_save_challan", "retry", req,
                       [loc EXCEPT !.saved = Len(payments) + 1])
               /\ UNCHANGED challans
          ELSE /\ Finish(p, "retry", req, loc, Fail(500, "PersistenceError"))
               /\ UNCHANGED <<challans, payments>>

\* originalPayment.challanId.status = 'paid'; await ....save()
RetrySaveChallan(p) ==
    LET req == procs[p].req
        loc == procs[p].loc
        id == loc.payment.challanId
    IN  \E saved \in BOOLEAN :
          IF saved
          THEN /\ challans' = [challans EXCEPT ![id].status = "paid",
                                               ![id].paymentDate = TRUE]
               /\ Finish(p, "retry", req, loc, Ok)
               /\ UNCHANGED payments
          ELSE /\ Finish(p, "retry", req, loc, Fail(500, "PersistenceError"))
               /\ UNCHANGED <<challans, payments>>

RetryFailedPayment(p, user, paymentId, method, details) ==
    /\ procs[p].pc \in {"idle", "retry_save_payment", "retry_save_challan"}
    /\ IF procs[p].pc = "idle" THEN RetryLoad(p, user, paymentId, method, details)
       ELSE IF procs[p].pc = "retry_save_payment" THEN RetrySavePayment(p)
       ELSE RetrySaveChallan(p)
    /\ UNCHANGED <<observers, notified, lastPublish>>

----------------------------------------------------------------------------
(* PaymentController.refundPayment: one action, a step per await *)

RefundReq(user, paymentId) == [user |-> user, paymentId |-> paymentId]

RefundLoad(p, user, paymentId) ==
    LET req == RefundReq(user, paymentId)
        payment == payments[paymentId]
        gateway == CreateGateway(payment.gateway)
        refundResult == GatewayRefundPayment(gateway, payment.amount)
    IN  /\ IF "process_refunds" \notin GetPermissions(user)
           THEN Finish(p, "refund", req, <<>>, Fail(403, "Access denied"))
           ELSE IF ~PaymentExists(paymentId)
           THEN Finish(p, "refund", req, <<>>, Fail(404, "Payment not found"))
           ELSE IF payment.status # "completed"
           THEN Finish(p, "refund", req, <<>>,
                       Fail(400, "Can only refund completed payments"))
           ELSE IF gateway = "throw"
           THEN Finish(p, "refund", req, <<>>, Fail(500, "Unsupported payment gateway"))
           ELSE IF ~refundResult.success
           THEN Finish(p, "refund", req, <<>>, Fail(400, "Refund failed"))
           ELSE Goto(p, "refund_save_payment", "refund", req,
                     [challanId |-> payment.challanId])
        /\ UNCHANGED <<challans, payments>>

\* payment.status = 'refunded'; await payment.save()
RefundSavePayment(p) ==
    LET req == procs[p].req
        loc == procs[p].loc
    IN  \E saved \in BOOLEAN :
          IF saved
          THEN /\ payments' = [payments EXCEPT ![req.paymentId] =
                                 PaymentPreSave([@ EXCEPT !.status = "refunded"], FALSE)]
               /\ IF ChallanExists(loc.challanId)
                  THEN Goto(p, "refund_save_challan", "refund", req, loc)
                  ELSE Finish(p, "refund", req, loc, Ok)
               /\ UNCHANGED challans
          ELSE /\ Finish(p, "refund", req, loc, Fail(500, "PersistenceError"))
               /\ UNCHANGED <<challans, payments>>

\* payment.challanId.status = 'cancelled'; await payment.challanId.save()
RefundSaveChallan(p) ==
    LET req == procs[p].req
        loc == procs[p].loc
    IN  \E saved \in BOOLEAN :
          IF saved
          THEN /\ challans' = [challans EXCEPT ![loc.challanId].status = "cancelled"]
               /\ Finish(p, "refund", req, loc, Ok)
               /\ UNCHANGED payments
          ELSE /\ Finish(p, "refund", req, loc, Fail(500, "PersistenceError"))
               /\ UNCHANGED <<challans, payments>>

RefundPayment(p, user, paymentId) ==
    /\ procs[p].pc \in {"idle", "refund_save_payment", "refund_save_challan"}
    /\ IF procs[p].pc = "idle" THEN RefundLoad(p, user, paymentId)
       ELSE IF procs[p].pc = "refund_save_payment" THEN RefundSavePayment(p)
       ELSE RefundSaveChallan(p)
    /\ UNCHANGED <<observers, notified, lastPublish>>

----------------------------------------------------------------------------
(* ChallanController.updateChallan and its update strategies.  A request  *)
(* body is the set `has` of fields it defines and their values.            *)

UpdateBody(has, fineAmount, status) ==
    [has |-> has, fineAmount |-> fineAmount, status |-> status]

NoUpdate == [has |-> {}, fineAmount |-> 0, status |-> Undefined]

\* UserPermissionManager.setupUserWithDecorators(...).getPermissions() for a
\* user without special access: the audit decorator adds no permission
DecoratedPermissions(u) == GetPermissions(u)

OfficerUpdateStrategy(updateData, existingChallan) ==
    [updateData EXCEPT
       !.has = @ \cap {"violationType", "location", "description", "fineAmount"}]

AdminUpdateStrategy(updateData, existingChallan) ==
    [updateData EXCEPT
       !.has = (@ \cap {"violationType", "location", "description", "fineAmount",
                        "status", "dueDate"})
               \cup (IF "status" \in updateData.has /\ updateData.status = "paid"
                        /\ existingChallan.status # "paid"
                     THEN {"paymentDate"} ELSE {})]

CitizenUpdateStrategy(updateData, existingChallan) ==
    IF "disputeReason" \in updateData.has /\ existingChallan.status = "pending"
    THEN [has |-> {"disputeReason", "status"}, fineAmount |-> 0, status |-> "disputed"]
    ELSE NoUpdate

GetUpdateStrategy(userRole, updateData, existingChallan) ==
    CASE userRole = "officer" -> OfficerUpdateStrategy(updateData, existingChallan)
      [] userRole = "admin" -> AdminUpdateStrategy(updateData, existingChallan)
      [] OTHER -> CitizenUpdateStrategy(updateData, existingChallan)

StatusEnum == {"pending", "paid", "disputed", "cancelled"}

\* Challan.findByIdAndUpdate(id, updateFields, {runValidators: true})
FindByIdAndUpdate(doc, updateFields) ==
    [doc EXCEPT
       !.fineAmount = IF "fineAmount" \in updateFields.has
                      THEN updateFields.fineAmount ELSE @,
       !.status = IF "status" \in updateFields.has THEN updateFields.status ELSE @,
       !.disputeReason = IF "disputeReason" \in updateFields.has THEN TRUE ELSE @,
       !.paymentDate = IF "paymentDate" \in updateFields.has THEN TRUE ELSE @]

UpdateValid(updateFields) ==
    "status" \in updateFields.has => updateFields.status \in StatusEnum

UpdateReq(user, challanId, body) == [user |-> user, challanId |-> challanId, body |-> body]

\* the handler up to findByIdAndUpdate: Challan.findById, the permission
\* check and the strategy
UpdateLoad(p, user, challanId, body) ==
    LET req == UpdateReq(user, challanId, body)
        challan == challans[challanId]
        role == users[user].role
    IN  /\ procs[p].pc = "idle"
        /\ IF ~ChallanExists(challanId)
           THEN Finish(p, "update", req, <<>>, Fail(404, "Challan not found"))
           ELSE IF role = "officer" /\ user # challan.officerId
           THEN Finish(p, "update", req, <<>>,
                       Fail(403, "Access denied - you can only edit your own challans"))
           ELSE IF role # "officer" /\ "update_all_challans" \notin DecoratedPermissions(user)
           THEN Finish(p, "update", req, <<>>, Fail(403, "Access denied"))
           ELSE Goto(p, "update_apply", "update", req,
                     GetUpdateStrategy(role, body, challan))
        /\ UNCHANGED <<challans, payments, observers, notified, lastPublish>>

UpdateApply(p) ==
    LET req == procs[p].req
        updateFields == procs[p].loc
    IN  /\ procs[p].pc = "update_apply"
        /\ \E saved \in BOOLEAN :
             IF saved /\ UpdateValid(updateFields)
             THEN /\ challans' = [challans EXCEPT ![req.challanId] =
                                    FindByIdAndUpdate(@, updateFields)]
                  /\ Finish(p, "update", req, updateFields, Ok)
             ELSE /\ Finish(p, "update", req, updateFields, Fail(500, "PersistenceError"))
                  /\ UNCHANGED challans
        /\ UNCHANGED <<payments, observers, notified, lastPublish>>

----------------------------------------------------------------------------
(* ChallanNotificationSubject used directly *)

AddObserver(observer) ==
    /\ Len(observers) < MaxObservers
    /\ observers' = Append(observers, observer)
    /\ UNCHANGED <<challans, payments, notified, lastPublish, procs, utilities>>

RemoveObserver(observer) ==
    /\ observers' = Filter(observers, observer)
    /\ observers' # observers
    /\ UNCHANGED <<challans, payments, notified, lastPublish, procs, utilities>>

Publish(kind, throwing) ==
    LET n == NotifyObservers(observers, throwing)
        ev == Event(kind, 1)
    IN  /\ \A c \in Channels : Len(notified[c]) + Count(observers, c) <= MaxEvents
        /\ notified' = Deliver(notified, n.invoked, ev)
        /\ lastPublish' = Published(observers, throwing, n)
        /\ UNCHANGED <<challans, payments, observers, procs, utilities>>

InitBus ==
    /\ challans = <<>>
    /\ payments = <<>>
    /\ observers = <<>>
    /\ notified = [c \in Channels |-> <<>>]
    /\ lastPublish = NoPublish
    /\ procs = [p \in Procs |-> IdleProc]
    /\ InitUtilities

NextBus ==
    \/ \E o \in Channels : AddObserver(o)
    \/ \E o \in Channels : RemoveObserver(o)
    \/ \E kind \in {"payment_received"}, throwing \in Throwing :
         Publish(kind, throwing)

SpecBus == InitBus /\ [][NextBus]_vars

----------------------------------------------------------------------------
(* Issuing specification: every kind of officer, citizen and violation     *)

IssueStep(p) ==
    \E officerId \in {"o1", "c1", NoUser}, citizenEmail \in Emails \cup {"nobody@mail"},
       data \in ViolationInputs :
        CreateChallan(p, officerId, citizenEmail, data, {})

NextIssue == \E p \in Procs : IssueStep(p) \/ Return(p)

SpecIssue == Init /\ [][NextIssue]_vars

----------------------------------------------------------------------------
(* Payment specification: one officer issues to c1; the owner c1 and       *)
(* another citizen c2 pay, through the controller or the facade            *)

IssuePay(p) == CreateChallan(p, "o1", "c1@mail", Speeding(50, 90), {})

\* the requests of the payment specification: a payment that passes the
\* dispatcher, one whose details fail validation, one whose method is
\* unsupported
PayInputs ==
    {<<"credit_card", DetailsOk>>, <<"upi", DetailsBad>>, <<"cash", DetailsOk>>}

PayStart(p) ==
    \E user \in {"c1", "c2"}, id \in {1, MaxChallans}, md \in PayInputs :
        \/ PayController(p, user, id, md[1], md[2])
        \/ PayFacadeCall(p, user, id, md[1], md[2])

NextPay ==
    \E p \in Procs :
        \/ IssuePay(p)
        \/ PayStart(p)
        \/ PayFacadeLoad(p)
        \/ PaySavePayment(p)
        \/ PaySaveChallan(p, {})
        \/ Return(p)

SpecPay == Init /\ [][NextPay]_vars

----------------------------------------------------------------------------
(* The whole service: issuing, the two payment paths, retry, refund and    *)
(* update, two requests in flight                                          *)

UpdateInputs ==
    {UpdateBody({"fineAmount"}, 500, Undefined),
     UpdateBody({"status"}, 0, "cancelled"),
     UpdateBody({"disputeReason"}, 0, Undefined)}

PayStep(p) ==
    \/ \E m \in {"upi", "cash"} : PayFacadeCall(p, "c1", 1, m, DetailsOk)
    \/ PayFacadeLoad(p)
    \/ PaySavePayment(p)
    \/ PaySaveChallan(p, {})

GatewayStep(p) ==
    \/ \E g \in {"Stripe", "razorpay"} : GwLoad(p, "c1", 1, "upi", g)
    \/ GwSavePayment(p)
    \/ GwSaveChallan(p)

UpdateStep(p) ==
    \/ \E user \in {"c1", "o1", "a1"}, body \in UpdateInputs : UpdateLoad(p, user, 1, body)
    \/ UpdateApply(p)

Next ==
    \E p \in Procs :
        \/ IssuePay(p)
        \/ PayStep(p)
        \/ GatewayStep(p)
        \/ UpdateStep(p)
        \/ \E id \in 1..MaxPayments : RetryFailedPayment(p, "c1", id, "upi", DetailsOk)
        \/ \E user \in {"a1", "c1"}, id \in 1..MaxPayments : RefundPayment(p, user, id)
        \/ Return(p)

Spec == Init /\ [][Next]_vars

\* the payment documents of every handler that saves one: the facade with
\* a card fee, the gateway handler with both adapters, retry and refund
MoneyStep(p) ==
    \/ IssuePay(p)
    \/ \E id \in {1, MaxChallans} : PayFacadeCall(p, "c1", id, "credit_card", DetailsOk)
    \/ PayFacadeLoad(p)
    \/ PaySavePayment(p)
    \/ PaySaveChallan(p, {})
    \/ \E id \in {1, MaxChallans}, g \in {"Stripe", "PayPal"} :
           GwLoad(p, "c1", id, "credit_card", g)
    \/ GwSavePayment(p)
    \/ GwSaveChallan(p)
    \/ \E id \in {1, MaxPayments} :
           RetryFailedPayment(p, "c1", id, "credit_card", DetailsOk)
    \/ \E id \in {1, MaxPayments} : RefundPayment(p, "a1", id)
    \/ Return(p)

NextMoney == \E p \in Procs : MoneyStep(p)

SpecMoney == Init /\ [][NextMoney]_vars

\* ---- the read use cases of the facade ----

\* the body of a facade method either throws or reaches its return
Thrown(message) == [thrown |-> TRUE, message |-> message]

Returned(value) == [thrown |-> FALSE, value |-> value]

FacadeCatchMutRethrow(body) ==
    IF body.thrown THEN [exception |-> body.message] ELSE body.value

\* try { ... } catch (error) { return { success: false, error: error.message } }
FacadeCatch(body) ==
    IF body.thrown THEN [success |-> FALSE, error |-> body.message] ELSE body.value

IdsWhereMutAll(docs, field, userId) == DOMAIN docs

\* the ids of the documents of `docs` whose `field` is `userId`
IdsWhere(docs, field, userId) == {i \in DOMAIN docs : docs[i][field] = userId}

\* .sort({ dateTime: -1 }): the newest document first
RECURSIVE Descending(_)
Descending(ids) ==
    IF ids = {} THEN <<>>
    ELSE LET newest == CHOOSE i \in ids : \A k \in ids : k <= i
         IN <<newest>> \o Descending(ids \ {newest})

\* challans.reduce((sum, c) => sum + c.fineAmount, 0)
RECURSIVE TotalFineAmount(_)
TotalFineAmount(ids) ==
    IF ids = {} THEN 0
    ELSE LET i == CHOOSE k \in ids : TRUE
         IN challans[i].fineAmount + TotalFineAmount(ids \ {i})

\* .skip((page - 1) * limit).limit(limit)
Page(list, page, limit) ==
    SubSeq(list, Min((page - 1) * limit, Len(list)) + 1, Min(page * limit, Len(list)))

\* Math.ceil(total / limit)
Pages(total, limit) == (total + limit - 1) \div limit

\* what the database does to a query of a read use case
DbOutcomes == {"ok", "findById throws", "find throws"}

DashboardReq(userId, db) == [userId |-> userId, db |-> db]

\* the body of getUserDashboard; an admin gets an empty dashboard and no
\* Challan.find is made
GetUserDashboardBody(userId, db) ==
    LET role == users[userId].role
        mine == IdsWhere(challans, "citizenId", userId)
        issued == IdsWhere(challans, "officerId", userId)
    IN  IF db = "findById throws" THEN Thrown("DatabaseError")
        ELSE IF FindUserById(userId) = NoUser THEN Thrown("User not found")
        ELSE IF role \in {"citizen", "officer"} /\ db = "find throws"
        THEN Thrown("DatabaseError")
        ELSE Returned(
               [success |-> TRUE, user |-> userId,
                dashboard |->
                  CASE role = "citizen" ->
                         [role |-> "citizen",
                          totalChallans |-> Cardinality(mine),
                          pendingChallans |->
                            Cardinality({i \in mine : challans[i].status = "pending"}),
                          paidChallans |->
                            Cardinality({i \in mine : challans[i].status = "paid"}),
                          totalFineAmount |-> TotalFineAmount(mine)]
                    [] role = "officer" ->
                         [role |-> "officer", totalIssued |-> Cardinality(issued)]
                    [] OTHER -> <<>>])

GetUserDashboard(p, userId, db) ==
    /\ procs[p].pc = "idle"
    /\ Finish(p, "dashboard", DashboardReq(userId, db), <<>>,
              FacadeCatch(GetUserDashboardBody(userId, db)))
    /\ UNCHANGED <<challans, payments, observers, notified, lastPublish>>

ListReq(userId, userRole, page, limit) ==
    [userId |-> userId, userRole |-> userRole, page |-> page, limit |-> limit]

\* the query of getAllChallans: a citizen's own challans, an officer's
\* issued challans, every challan for anyone else
ListQuery(userId, userRole) ==
    CASE userRole = "citizen" -> IdsWhere(challans, "citizenId", userId)
      [] userRole = "officer" -> IdsWhere(challans, "officerId", userId)
      [] OTHER -> DOMAIN challans

\* getAllChallans up to await Challan.find(query)...limit(limit)
GetAllChallans(p, userId, userRole, page, limit, db) ==
    LET req == ListReq(userId, userRole, page, limit)
        found == Page(Descending(ListQuery(userId, userRole)), page, limit)
    IN  /\ procs[p].pc = "idle"
        /\ IF db = "find throws"
           THEN Finish(p, "list", req, <<>>, FacadeCatch(Thrown("DatabaseError")))
           ELSE Goto(p, "list_count", "list", req, found)
        /\ UNCHANGED <<challans, payments, observers, notified, lastPublish>>

\* await Challan.countDocuments(query) and the result
GetAllChallansCount(p, countThrows) ==
    LET req == procs[p].req
        total == Cardinality(ListQuery(req.userId, req.userRole))
    IN  /\ procs[p].pc = "list_count"
        /\ Finish(p, "list", req, procs[p].loc,
                  FacadeCatch(
                    IF countThrows THEN Thrown("DatabaseError")
                    ELSE Returned([success |-> TRUE, challans |-> procs[p].loc,
                                   pagination |->
                                     [page |-> req.page, limit |-> req.limit,
                                      total |-> total,
                                      pages |-> Pages(total, req.limit)]])))
        /\ UNCHANGED <<challans, payments, observers, notified, lastPublish>>

HistoryReq(userId, userRole) == [userId |-> userId, userRole |-> userRole]

\* getPaymentHistory: a citizen's own payments, every payment for anyone else
GetPaymentHistory(p, userId, userRole, db) ==
    LET query == IF userRole = "citizen" THEN IdsWhere(payments, "citizenId", userId)
                 ELSE DOMAIN payments
    IN  /\ procs[p].pc = "idle"
        /\ Finish(p, "history", HistoryReq(userId, userRole), <<>>,
                  FacadeCatch(
                    IF db = "find throws" THEN Thrown("DatabaseError")
                    ELSE Returned([success |-> TRUE, payments |-> Descending(query)])))
        /\ UNCHANGED <<challans, payments, observers, notified, lastPublish>>

\* the five use cases of the facade, with every outcome of the database
FacadeStep(p) ==
    \/ \E throwing \in Throwing :
           CreateChallan(p, "o1", "c1@mail", Speeding(50, 90), throwing)
    \/ \E officerId \in {"c1", NoUser} :
           CreateChallan(p, officerId, "c1@mail", Speeding(50, 90), {})
    \/ \E md \in PayInputs : PayFacadeCall(p, "c1", 1, md[1], md[2])
    \/ PayFacadeLoad(p)
    \/ PaySavePayment(p)
    \/ \E throwing \in Throwing : PaySaveChallan(p, throwing)
    \/ \E userId \in {"c1", "o1", "a1", NoUser}, db \in DbOutcomes :
           GetUserDashboard(p, userId, db)
    \/ \E userId \in {"c1", "o1", "a1"}, page \in {1, 2}, db \in {"ok", "find throws"} :
           GetAllChallans(p, userId, users[userId].role, page, 1, db)
    \/ \E countThrows \in BOOLEAN : GetAllChallansCount(p, countThrows)
    \/ \E userId \in {"c1", "a1"}, db \in {"ok", "find throws"} :
           GetPaymentHistory(p, userId, users[userId].role, db)
    \/ Return(p)

NextFacade == \E p \in Procs : FacadeStep(p)

SpecFacade == Init /\ [][NextFacade]_vars

\* ---- the violations and their fines ----

\* ViolationFactory.createViolation(data).processViolation(): the template
\* method answers the fine and the label of the class the factory chose
ProcessViolation(p, data) ==
    LET class == CreateViolation(data.violationType) IN
    /\ procs[p].pc = "idle"
    /\ IF class = "throw"
       THEN Finish(p, "classify", data, <<>>, Fail(400, "Unknown violation type"))
       ELSE Finish(p, "classify", data,
                   [fineAmount |-> CalculateFine(class, data),
                    violationType |-> GetViolationType(class)], Ok)
    /\ UNCHANGED <<challans, payments, observers, notified, lastPublish>>

\* speeds around the two thresholds of a 50 zone
SpeedingInputs == {Speeding(50, actual) : actual \in {40, 50, 58, 60, 61, 70, 71, 80}}

\* every zone of the fine map and one that is not in it, around two hours
ParkingInputs ==
    {Parking(zone, minutes) : zone \in ZoneTypeEnum \cup {"loading-zone"},
                              minutes \in {60, 120, 121, 150}}

HelmetInputs == {Helmet(passengerCount) : passengerCount \in 0..3}

RedLightInputs == {RedLight(timeAfterRed) : timeAfterRed \in 1..5}

\* the two kinds the factory has no case for, and a kind outside the set
OtherInputs ==
    {OfType("Mobile Usage"), Generic(0), Generic(300), OfType("InvalidType")}

ClassifyStep(p) ==
    \/ \E data \in SpeedingInputs \cup ParkingInputs \cup HelmetInputs
                     \cup RedLightInputs \cup OtherInputs :
           ProcessViolation(p, data)
    \/ \E data \in HelmetInputs : CreateChallan(p, "o1", "c1@mail", data, {})
    \/ Return(p)

NextClassify == \E p \in Procs : ClassifyStep(p)

SpecClassify == Init /\ [][NextClassify]_vars

\* ---- the payment dispatcher on its own ----

DispatchReq(amount, details, method) ==
    [amount |-> amount, details |-> details, method |-> method]

\* paymentProcessor.processPayment(amount, paymentDetails, paymentMethod):
\* the result object, or the error thrown (no status, no result)
Dispatch(p, amount, details, method) ==
    LET result == PaymentProcessor(amount, details, method) IN
    /\ procs[p].pc = "idle"
    /\ IF result.success
       THEN Finish(p, "dispatch", DispatchReq(amount, details, method), result, Ok)
       ELSE Finish(p, "dispatch", DispatchReq(amount, details, method), <<>>,
                   Fail(0, result.error))
    /\ UNCHANGED <<challans, payments, observers, notified, lastPublish>>

\* amounts on both sides of the point where 2.9% passes 10 (345) and of the
\* point where 1.5% passes 25 (1667)
DispatchAmounts == {0, 344, 345, 1000, 1666, 1667}

\* details that break one rule each
DispatchDetails ==
    {DetailsOk, DetailsBad,
     [DetailsOk EXCEPT !.cardNumber = 0], [DetailsOk EXCEPT !.cardNumber = 15],
     [DetailsOk EXCEPT !.cvv = 2], [DetailsOk EXCEPT !.holderName = FALSE],
     [DetailsOk EXCEPT !.pin = 5], [DetailsOk EXCEPT !.upiId = <<"u", "b">>]}

NextDispatch ==
    \E p \in Procs :
        \/ \E amount \in DispatchAmounts, details \in DispatchDetails,
              method \in PaymentMethodEnum :
               Dispatch(p, amount, details, method)
        \/ Return(p)

SpecDispatch == Init /\ [][NextDispatch]_vars

\* ---- the dashboard over the challans of two citizens ----

DashboardStep(p) ==
    \/ CreateChallan(p, "o1", "c1@mail", Speeding(50, 90), {})
    \/ CreateChallan(p, "o1", "c2@mail", Speeding(50, 58), {})
    \/ \E id \in {1, MaxChallans} : PayFacadeCall(p, "c1", id, "credit_card", DetailsOk)
    \/ PayFacadeLoad(p)
    \/ PaySavePayment(p)
    \/ PaySaveChallan(p, {})
    \/ \E userId \in UserIds \cup {NoUser} : GetUserDashboard(p, userId, "ok")
    \/ Return(p)

NextDashboard == \E p \in Procs : DashboardStep(p)

SpecDashboard == Init /\ [][NextDashboard]_vars

\* ---- ConfigurationManager ----

\* the first and second part of a dotted key
ConfigSections == {"app", "test"}

ConfigLeaves == {"port", "value"}

\* key.split('.') of the keys used: 'app', 'app.port', 'test.value'
ConfigKeys == {<<"app">>, <<"app", "port">>, <<"test", "value">>}

\* the values stored: 0 is falsy, 1 is not
ConfigValues == {0, 1}

NoLeaf == [has |-> FALSE, val |-> 0]

\* what a property of this.config holds: nothing, a primitive, an object
UndefinedNode == [kind |-> "undefined", val |-> 0, sub |-> [l \in ConfigLeaves |-> NoLeaf]]

ValueNode(v) == [kind |-> "value", val |-> v, sub |-> [l \in ConfigLeaves |-> NoLeaf]]

EmptyObject == [kind |-> "object", val |-> 0, sub |-> [l \in ConfigLeaves |-> NoLeaf]]

\* loadConfiguration: of the sections it fills, app with app.port = 5001
LoadConfiguration ==
    [s \in ConfigSections |->
        IF s = "app"
        THEN [EmptyObject EXCEPT !.sub["port"] = [has |-> TRUE, val |-> 5001]]
        ELSE UndefinedNode]

\* get(key): walks the parts of the key until a value is undefined; a
\* property read on a primitive is undefined
ConfigGet(config, key) ==
    LET node == config[key[1]] IN
    IF Len(key) = 1 \/ node.kind = "undefined" THEN node
    ELSE IF node.kind = "value" THEN UndefinedNode
    ELSE IF node.sub[key[2]].has THEN ValueNode(node.sub[key[2]].val)
    ELSE UndefinedNode

\* set(key, value): a falsy section is replaced by {}; creating a property on
\* a primitive throws a TypeError in the strict mode of a class body
ConfigSet(config, key, value) ==
    LET node == config[key[1]]
        falsy == node.kind = "undefined" \/ (node.kind = "value" /\ node.val = 0)
        object == IF falsy THEN EmptyObject ELSE node
    IN  IF Len(key) = 1
        THEN [thrown |-> FALSE, config |-> [config EXCEPT ![key[1]] = ValueNode(value)]]
        ELSE IF ~falsy /\ node.kind = "value"
        THEN [thrown |-> TRUE, config |-> config]
        ELSE [thrown |-> FALSE,
              config |-> [config EXCEPT ![key[1]] =
                            [object EXCEPT !.sub[key[2]] = [has |-> TRUE, val |-> value]]]]

ConfigurationManagerNewMutNoGuard(c) ==
    LET id == Len(c.objects) + 1 IN
    [configuration |-> [instance |-> id, objects |-> Append(c.objects, LoadConfiguration)],
     ref |-> id]

\* new ConfigurationManager(): the existing instance when there is one,
\* otherwise a loaded object that becomes the instance
ConfigurationManagerNew(c) ==
    IF c.instance # 0 THEN [configuration |-> c, ref |-> c.instance]
    ELSE LET id == Len(c.objects) + 1 IN
         [configuration |-> [instance |-> id,
                             objects |-> Append(c.objects, LoadConfiguration)],
          ref |-> id]

\* ConfigurationManager.getInstance()
GetInstance(c) ==
    IF c.instance = 0
    THEN LET made == ConfigurationManagerNew(c) IN
         [configuration |-> made.configuration, ref |-> made.configuration.instance]
    ELSE [configuration |-> c, ref |-> c.instance]

\* a caller obtains its reference, by getInstance() or by new
ConfigObtain(p, by) ==
    LET got == IF by = "getInstance" THEN GetInstance(configuration)
               ELSE ConfigurationManagerNew(configuration)
    IN  /\ procs[p].pc = "idle"
        /\ Len(got.configuration.objects) <= MaxConfigObjects
        /\ configuration' = got.configuration
        /\ procs' = [procs EXCEPT ![p] =
                       [pc |-> "config", op |-> "config", req |-> <<>>,
                        loc |-> [ref |-> got.ref, by |-> by], res |-> NoRes]]
        /\ UNCHANGED <<challans, payments, observers, notified, lastPublish,
                       userRequests, now>>

\* config.set(key, value) through the caller's reference
ConfigSetStep(p, key, value) ==
    LET ref == procs[p].loc.ref
        r == ConfigSet(configuration.objects[ref], key, value)
    IN  /\ procs[p].pc = "config"
        /\ configuration' = [configuration EXCEPT !.objects[ref] = r.config]
        /\ procs' = [procs EXCEPT ![p] =
                       [@ EXCEPT !.pc = "done", !.req = [key |-> key, value |-> value],
                                 !.res = IF r.thrown THEN Fail(0, "TypeError") ELSE Ok]]
        /\ UNCHANGED <<challans, payments, observers, notified, lastPublish,
                       userRequests, now>>

\* config.get(key) through the caller's reference
ConfigGetStep(p, key) ==
    LET ref == procs[p].loc.ref IN
    /\ procs[p].pc = "config"
    /\ procs' = [procs EXCEPT ![p] =
                   [@ EXCEPT !.pc = "done", !.req = [key |-> key],
                             !.res = [success |-> TRUE, status |-> 0, error |-> "",
                                      value |-> ConfigGet(configuration.objects[ref], key)]]]
    /\ UNCHANGED <<challans, payments, observers, notified, lastPublish, utilities>>

ConfigStep(p) ==
    \/ \E by \in {"getInstance", "new"} : ConfigObtain(p, by)
    \/ \E key \in ConfigKeys, value \in ConfigValues : ConfigSetStep(p, key, value)
    \/ \E key \in ConfigKeys : ConfigGetStep(p, key)
    \/ Return(p)

NextConfig == \E p \in Procs : ConfigStep(p)

SpecConfig == Init /\ [][NextConfig]_vars

\* ---- the payment operations one at a time, every save succeeding ----

\* no other request is in progress when p steps
Alone(p) == \A q \in Procs \ {p} : procs[q].pc = "idle"

\* the step of p did not end in a failed save
Persisted(p) == procs'[p].res.error # "PersistenceError"

SequentialStep(p) ==
    \/ Alone(p) /\ IssuePay(p)
    \/ \E id \in {1, MaxChallans} :
           Alone(p) /\ PayFacadeCall(p, "c1", id, "credit_card", DetailsOk)
    \/ Alone(p) /\ PayFacadeLoad(p)
    \/ Alone(p) /\ PaySavePayment(p) /\ Persisted(p)
    \/ Alone(p) /\ PaySaveChallan(p, {}) /\ Persisted(p)
    \/ \E id \in {1, MaxChallans}, g \in {"Stripe", "PayPal"} :
           Alone(p) /\ GwLoad(p, "c1", id, "credit_card", g)
    \/ Alone(p) /\ GwSavePayment(p) /\ Persisted(p)
    \/ Alone(p) /\ GwSaveChallan(p) /\ Persisted(p)
    \/ \E id \in {1, MaxPayments} :
           Alone(p) /\ RetryFailedPayment(p, "c1", id, "credit_card", DetailsOk)
                    /\ Persisted(p)
    \/ \E user \in {"a1", "c1"}, id \in {1, MaxPayments} :
           Alone(p) /\ RefundPayment(p, user, id) /\ Persisted(p)
    \/ Alone(p) /\ Return(p)

NextSequential == \E p \in Procs : SequentialStep(p)

SpecSequential == Init /\ [][NextSequential]_vars

----------------------------------------------------------------------------
(* Refund requests, interleaved at their awaits, on gateway payments *)

RefundStep(p) ==
    \/ IssuePay(p)
    \/ \E id \in {1, MaxChallans}, g \in {"Stripe", "PayPal"} :
           GwLoad(p, "c1", id, "credit_card", g)
    \/ GwSavePayment(p)
    \/ GwSaveChallan(p)
    \/ \E user \in {"a1", "c1"}, id \in {1, MaxPayments} : RefundPayment(p, user, id)
    \/ Return(p)

NextRefund == \E p \in Procs : RefundStep(p)

SpecRefund == Init /\ [][NextRefund]_vars

----------------------------------------------------------------------------
(* Permission decorators.  A permission list is the set of its entries.   *)

DecoratorConfig(type, permissions, expiryDate, features) ==
    [type |-> type, permissions |-> permissions, expiryDate |-> expiryDate,
     features |-> features]

\* SupervisorPermissionDecorator.additionalPermissions
SupervisorAdditionalPermissions ==
    {"view_team_performance", "assign_cases", "approve_disputes",
     "generate_team_reports"}

TemporaryAdminPermissions == {"delete_challans", "modify_fines"}

BetaFeatures == {"advanced_search", "bulk_operations", "analytics_dashboard"}

\* FeatureToggleDecorator.isFeatureEnabled
IsFeatureEnabled(enabledFeatures, feature) ==
    feature \in enabledFeatures \/ "*" \in enabledFeatures

\* getPermissions of the decorator the factory builds for config, over the
\* permissions of the component it wraps, at the instant t of the clock
DecoratorGetPermissions(config, basePermissions, t) ==
    CASE config.type = "supervisor" ->
           basePermissions \cup SupervisorAdditionalPermissions
      [] config.type = "temporary" ->
           IF t > config.expiryDate
           THEN basePermissions
           ELSE basePermissions \cup config.permissions
      [] config.type = "audit" -> basePermissions
      [] config.type = "feature_toggle" ->
           {permission \in basePermissions :
               IsFeatureEnabled(config.features, permission)}
      [] OTHER -> basePermissions

\* PermissionDecoratorFactory.createDecoratedUser(user, decoratorConfigs)
\* .getPermissions(): the last config is the outermost decorator
RECURSIVE CreateDecoratedUser(_, _, _)
CreateDecoratedUser(u, decoratorConfigs, t) ==
    IF decoratorConfigs = <<>>
    THEN GetPermissions(u)
    ELSE DecoratorGetPermissions(
             decoratorConfigs[Len(decoratorConfigs)],
             CreateDecoratedUser(u, SubSeq(decoratorConfigs, 1,
                                           Len(decoratorConfigs) - 1), t),
             t)

\* the decoratorConfigs of UserPermissionManager.setupUserWithDecorators,
\* called at the instant t
SetupUserWithDecorators(userRole, specialAccess, t) ==
    (IF userRole = "officer" /\ "supervisor" \in specialAccess
     THEN <<DecoratorConfig("supervisor", {}, 0, {})>> ELSE <<>>)
    \o (IF "temporary_admin" \in specialAccess
        THEN <<DecoratorConfig("temporary", TemporaryAdminPermissions,
                               t + SevenDays, {})>>
        ELSE <<>>)
    \o (IF userRole = "admin"
        THEN <<DecoratorConfig("audit", {}, 0, {})>> ELSE <<>>)
    \o (IF "beta_features" \in specialAccess
        THEN <<DecoratorConfig("feature_toggle", {}, 0, BetaFeatures)>>
        ELSE <<>>)

\* the configs handed to the factory
DecoratorConfigs ==
    {DecoratorConfig("supervisor", {}, 0, {}),
     DecoratorConfig("audit", {}, 0, {}),
     DecoratorConfig("feature_toggle", {}, 0, BetaFeatures),
     DecoratorConfig("feature_toggle", {}, 0, {"*"})}
    \cup {DecoratorConfig("temporary", TemporaryAdminPermissions, e, {}) :
            e \in {1, MaxNow - 1}}

DecoratorStacks ==
    UNION {[1..n -> DecoratorConfigs] : n \in 0..MaxDecorators}

SpecialAccess == SUBSET {"supervisor", "temporary_admin", "beta_features"}

\* a request builds the decorated user
Decorate(p, u, decoratorConfigs) ==
    /\ procs[p].pc = "idle"
    /\ Goto(p, "decorated", "decorate",
            [user |-> u, configs |-> decoratorConfigs], <<>>)
    /\ UNCHANGED <<challans, payments, observers, notified, lastPublish>>

\* decoratedUser.getPermissions(), read at the instant the call is made
DecoratedGetPermissions(p) ==
    /\ procs[p].pc = "decorated"
    /\ procs' = [procs EXCEPT ![p] =
                   [@ EXCEPT !.pc = "done",
                             !.res = [success |-> TRUE, status |-> 200, error |-> "",
                                      at |-> now,
                                      permissions |->
                                          CreateDecoratedUser(procs[p].req.user,
                                                              procs[p].req.configs,
                                                              now)]]]
    /\ UNCHANGED <<challans, payments, observers, notified, lastPublish, utilities>>

\* the clock advances
Tick ==
    /\ now < MaxNow
    /\ now' = now + 1
    /\ UNCHANGED <<challans, payments, observers, notified, lastPublish, procs,
                   configuration, userRequests>>

DecorateStep(p) ==
    \/ \E u \in {"c1", "o1", "a1"}, decoratorConfigs \in DecoratorStacks :
           Alone(p) /\ Decorate(p, u, decoratorConfigs)
    \/ \E u \in {"c1", "o1", "a1"}, specialAccess \in SpecialAccess :
           Alone(p) /\ Decorate(p, u, SetupUserWithDecorators(users[u].role,
                                                              specialAccess, now))
    \/ DecoratedGetPermissions(p)
    \/ Return(p)

NextDecorate ==
    \/ \E p \in Procs : DecorateStep(p)
    \/ Tick

SpecDecorate == Init /\ [][NextDecorate]_vars

----------------------------------------------------------------------------
(* AuthMiddleware.rateLimitByRole: one middleware instance and its map *)

\* { ...defaultLimits, ...limits } with limits given for every role
RateLimits ==
    [citizen |-> [requests |-> CitizenRequests, window |-> Window],
     officer |-> [requests |-> OfficerRequests, window |-> Window],
     admin |-> [requests |-> AdminRequests, window |-> Window]]

\* rateLimits[userRole] || rateLimits.citizen
LimitOf(userRole) ==
    IF userRole \in DOMAIN RateLimits THEN RateLimits[userRole] ELSE RateLimits.citizen

NextCalled == [success |-> TRUE, status |-> 0, error |-> ""]

\* the middleware with the test of the count taken one request too late
RateLimitMutOverLimit(userLimit, limit, t) ==
    IF ~userLimit.has \/ t > userLimit.resetTime
    THEN [res |-> NextCalled,
          entry |-> [has |-> TRUE, count |-> 1, resetTime |-> t + limit.window]]
    ELSE IF userLimit.count > limit.requests
    THEN [res |-> Fail(429, "Rate limit exceeded"), entry |-> userLimit]
    ELSE [res |-> NextCalled, entry |-> [userLimit EXCEPT !.count = @ + 1]]

\* the body of the middleware for a request of a known user at the instant
\* t: the answer (next() or 429) and the user's entry of the map afterwards
RateLimit(userLimit, limit, t) ==
    IF ~userLimit.has \/ t > userLimit.resetTime
    THEN [res |-> NextCalled,
          entry |-> [has |-> TRUE, count |-> 1, resetTime |-> t + limit.window]]
    ELSE IF userLimit.count >= limit.requests
    THEN [res |-> Fail(429, "Rate limit exceeded"), entry |-> userLimit]
    ELSE [res |-> NextCalled, entry |-> [userLimit EXCEPT !.count = @ + 1]]

\* (req, res, next) => { ... }: synchronous, so one step; a request without
\* req.user throws at req.user.id and the catch calls next()
RateLimitByRole(p, userId) ==
    LET out == RateLimit(userRequests[userId], LimitOf(users[userId].role), now) IN
    /\ procs[p].pc = "idle"
    /\ IF userId = NoUser
       THEN /\ procs' = [procs EXCEPT ![p] =
                           [pc |-> "done", op |-> "ratelimit",
                            req |-> [user |-> userId, at |-> now], loc |-> <<>>,
                            res |-> NextCalled]]
            /\ UNCHANGED userRequests
       ELSE /\ procs' = [procs EXCEPT ![p] =
                           [pc |-> "done", op |-> "ratelimit",
                            req |-> [user |-> userId, at |-> now], loc |-> <<>>,
                            res |-> out.res]]
            /\ userRequests' = [userRequests EXCEPT ![userId] = out.entry]
    /\ UNCHANGED <<challans, payments, observers, notified, lastPublish,
                   configuration, now>>

RateLimitStep(p) ==
    \/ \E userId \in {"c1", "c2", "o1", NoUser} : Alone(p) /\ RateLimitByRole(p, userId)
    \/ Return(p)

NextRateLimit ==
    \/ \E p \in Procs : RateLimitStep(p)
    \/ Tick

SpecRateLimit == Init /\ [][NextRateLimit]_vars

----------------------------------------------------------------------------
(* Properties *)

\* the persisted state and the deliveries are as they were
PersistedUnchanged == UNCHANGED <<challans, payments, notified>>

\* request slot p takes a step
Steps(p) == procs'[p] # procs[p]

\* slot p holds an answered ProcessPayment call that succeeded
PaySucceeded(p) ==
    procs[p].pc = "done" /\ procs[p].op = "pay" /\ procs[p].res.success

\* the completed payments persisted for challan c
CompletedPayments(c) ==
    {i \in DOMAIN payments : payments[i].challanId = c /\ payments[i].status = "completed"}

\* C1: two concurrent ProcessPayment calls for the same pending challan never
\* both succeed: they never leave two completed Payment records for the
\* challan, nor payment_received delivered twice to a channel.
C1_AtMostOneSuccessfulPayment ==
    \A p, q \in Procs :
        (p # q /\ PaySucceeded(p) /\ PaySucceeded(q)
            /\ procs[p].req.challanId = procs[q].req.challanId)
        => LET c == procs[p].req.challanId
           IN  /\ Cardinality(CompletedPayments(c)) <= 1
               /\ \A ch \in Channels :
                    Count(notified[ch], Event("payment_received", c)) <= 1

\* C2: a ProcessPayment call that reaches its checks, in the controller or in
\* the facade, while the challan is persisted as paid ends there in failure,
\* and that step leaves challans, payments and deliveries as they were.
C2_ReplayOnPaidRejected ==
    [][\A p \in Procs :
         (/\ Steps(p)
          /\ procs'[p].op = "pay"
          /\ procs[p].pc \in {"idle", "pay_facade"}
          /\ ChallanExists(procs'[p].req.challanId)
          /\ challans[procs'[p].req.challanId].status = "paid")
         => /\ PersistedUnchanged
            /\ procs'[p].pc \in {"pay_facade", "done"}
            /\ procs'[p].pc = "done" => ~procs'[p].res.success
            /\ procs[p].pc = "pay_facade" => procs'[p].pc = "done"]_vars

\* C2 happens: the owner's replay on a paid challan was refused by the facade
\* and the challan still has its one completed payment
C2_Witness ==
    \E p \in Procs :
        /\ procs[p].pc = "done" /\ procs[p].op = "pay"
        /\ procs[p].res.error = "Challan already paid"
        /\ challans[procs[p].req.challanId].status = "paid"
        /\ challans[procs[p].req.challanId].citizenId = procs[p].req.user
        /\ Cardinality(CompletedPayments(procs[p].req.challanId)) = 1

C4_FanOutIsolated ==
    /\ lastPublish.invoked = lastPublish.registered
    /\ ~lastPublish.raised

\* C4 happens: the first of three registered observers threw, one after it
\* did not, and the event reached the observers behind the one that threw
C4_Witness ==
    /\ Len(lastPublish.registered) = 3
    /\ lastPublish.registered[1] \in lastPublish.throwing
    /\ lastPublish.registered[3] \notin lastPublish.throwing
    /\ Len(notified[lastPublish.registered[3]]) > 0

\* C5: a ProcessPayment call that ended in failure has left no completed
\* Payment of its own behind.
C5_FailedPaymentPersistsNothing ==
    \A p \in Procs :
        (procs[p].pc = "done" /\ procs[p].op = "pay" /\ ~procs[p].res.success
            /\ procs[p].loc # <<>>)
        => ~(/\ procs[p].loc.saved \in DOMAIN payments
             /\ payments[procs[p].loc.saved].status = "completed")

\* the rule of the dispatcher as specified: the method is one of the three
\* and the details pass the method's validation
C6_DispatchAccepts(method, details) ==
    CASE method = "credit_card" ->
           details.cardNumber >= 16 /\ details.cvv >= 3 /\ details.holderName
      [] method = "debit_card" -> details.cardNumber >= 16 /\ details.pin = 4
      [] method = "upi" -> Includes(details.upiId, "@") /\ details.pin = 4
      [] OTHER -> FALSE

\* C6: when the facade runs a call whose method is unsupported or whose
\* details fail the method's validation, the call ends there in failure and
\* challans, payments and deliveries are as they were.
C6_DispatchFailurePersistsNothing ==
    [][\A p \in Procs :
         (/\ Steps(p)
          /\ procs[p].pc = "pay_facade"
          /\ ~C6_DispatchAccepts(procs[p].req.method, procs[p].req.details))
         => /\ PersistedUnchanged
            /\ procs'[p].pc = "done"
            /\ ~procs'[p].res.success]_vars

\* C6 happens: the owner's call on a pending challan failed in the
\* dispatcher, the challan is still pending and has no payment
C6_Witness ==
    \E p \in Procs :
        /\ procs[p].pc = "done" /\ procs[p].op = "pay"
        /\ procs[p].res.error = "Unsupported payment method"
        /\ challans[procs[p].req.challanId].status = "pending"
        /\ ~challans[procs[p].req.challanId].paymentDate
        /\ payments = <<>>
        /\ \A ch \in Channels : Count(notified[ch], Event("payment_received", 1)) = 0

\* the officer, the citizen or the violation kind of an IssueChallan request
\* is one the operation must refuse
C7_MustFail(req) ==
    \/ req.officerId \notin UserIds
    \/ users[req.officerId].role # "officer"
    \/ ~\E u \in UserIds : users[u].role = "citizen" /\ users[u].email = req.citizenEmail
    \/ req.data.violationType \notin
         {"Speeding", "Wrong Parking", "No Helmet", "Red Light", "Mobile Phone Usage", "Other"}

\* C7: an IssueChallan call with an unknown officer, an officer without
\* create_challans, an unknown citizen or an unknown violation kind fails,
\* persists no challan and delivers no challan_created.
C7_IssueFailsBeforePersistence ==
    [][\A p \in Procs :
         (/\ Steps(p)
          /\ procs'[p].op = "issue"
          /\ procs'[p].pc = "done"
          /\ C7_MustFail(procs'[p].req))
         => /\ ~procs'[p].res.success
            /\ UNCHANGED <<challans, payments, notified>>]_vars

\* C7 happens: two refused calls, one for the violation kind and one for the
\* officer's capability, and nothing is persisted or delivered
C7_Witness ==
    \E p, q \in Procs :
        /\ procs[p].pc = "done" /\ procs[p].op = "issue"
        /\ procs[p].res.error = "Unknown violation type"
        /\ procs[q].pc = "done" /\ procs[q].op = "issue"
        /\ procs[q].res.error = "Officer not authorized to create challans"
        /\ challans = <<>>
        /\ \A ch \in Channels : notified[ch] = <<>>

\* the fine of the classifier as specified, for the kinds issued here
C8_ClassifierFine(data) ==
    CASE data.violationType = "Speeding" ->
           IF data.actualSpeed - data.speedLimit > 20 THEN 1000
           ELSE IF data.actualSpeed - data.speedLimit > 10 THEN 750
           ELSE 500
      [] data.violationType = "Wrong Parking" ->
           LET base == CASE data.zoneType = "no-parking" -> 200
                         [] data.zoneType = "handicap" -> 1000
                         [] data.zoneType = "fire-lane" -> 1500
                         [] data.zoneType = "expired-meter" -> 100
                         [] OTHER -> 200
           IN IF data.duration > 120 THEN (base * 3) \div 2 ELSE base

\* C8: a successful IssueChallan call adds exactly one challan, pending, for
\* the citizen and with the classifier's fine, keeps the challans there were,
\* and delivers exactly one challan_created for it to every registered
\* channel.
C8_IssuePersistsOnePendingChallan ==
    [][\A p \in Procs :
         (/\ Steps(p)
          /\ procs'[p].op = "issue"
          /\ procs'[p].pc = "done"
          /\ procs'[p].res.success)
         => LET id == Len(challans) + 1
                req == procs'[p].req
            IN  /\ Len(challans') = id
                /\ SubSeq(challans', 1, Len(challans)) = challans
                /\ challans'[id].status = "pending"
                /\ users[challans'[id].citizenId].email = req.citizenEmail
                /\ challans'[id].fineAmount = C8_ClassifierFine(req.data)
                /\ \A ch \in Channels :
                     (\E i \in DOMAIN observers : observers[i] = ch)
                     => notified'[ch] = Append(notified[ch], Event("challan_created", id))
                /\ UNCHANGED payments]_vars

\* C8 happens: Speeding at 90 in a 50 zone was issued as the second challan,
\* pending with fine 1000, and each channel has its one challan_created
C8_Witness ==
    \E p \in Procs :
        /\ procs[p].pc = "done" /\ procs[p].op = "issue" /\ procs[p].res.success
        /\ procs[p].req.data = Speeding(50, 90)
        /\ procs[p].loc = 2
        /\ challans[2].fineAmount = 1000
        /\ challans[2].status = "pending"
        /\ \A ch \in Channels : Count(notified[ch], Event("challan_created", 2)) = 1

\* C9: when the facade runs a call by a user who is not the citizen of the
\* challan, the call ends there with the ownership error, before the strategy
\* has judged the method, and challans, payments and deliveries are as they
\* were.
C9_NonOwnerRejected ==
    [][\A p \in Procs :
         (/\ Steps(p)
          /\ procs[p].pc = "pay_facade"
          /\ ChallanExists(procs[p].req.challanId)
          /\ challans[procs[p].req.challanId].citizenId # procs[p].req.user)
         => /\ PersistedUnchanged
            /\ procs'[p].pc = "done"
            /\ ~procs'[p].res.success
            /\ procs'[p].res.error = "Unauthorized access to challan"]_vars

\* C9 happens: citizen c2 called the facade for c1's pending challan with an
\* unsupported method and was refused for the ownership
C9_Witness ==
    \E p \in Procs :
        /\ procs[p].pc = "done" /\ procs[p].op = "pay"
        /\ procs[p].req.user = "c2"
        /\ procs[p].req.method = "cash"
        /\ procs[p].res.error = "Unauthorized access to challan"
        /\ challans[procs[p].req.challanId].citizenId = "c1"
        /\ challans[procs[p].req.challanId].status = "pending"
        /\ payments = <<>>

\* C10: a RefundPayment call by an admin on a completed payment of a paid
\* challan, taken by a gateway whose refund succeeds, is answered only with
\* the payment refunded and its challan cancelled.
C10_RefundBothOrNeither ==
    [][\A p \in Procs :
         (/\ Steps(p)
          /\ procs'[p].op = "refund"
          /\ procs'[p].pc = "done"
          /\ users[procs'[p].req.user].role = "admin"
          /\ PaymentExists(procs'[p].req.paymentId)
          /\ \/ procs[p].pc = "idle"
                  /\ payments[procs'[p].req.paymentId].status = "completed"
                  /\ payments[procs'[p].req.paymentId].gateway \in {"stripe", "paypal"}
                  /\ challans[payments[procs'[p].req.paymentId].challanId].status = "paid"
             \/ procs[p].pc \in {"refund_save_payment", "refund_save_challan"})
         => /\ payments'[procs'[p].req.paymentId].status = "refunded"
            /\ challans'[payments[procs'[p].req.paymentId].challanId].status
                  = "cancelled"]_vars

\* C11: a dispute by the owning citizen on a pending challan is not refused
\* and, once applied, leaves the challan disputed with its reason; and a
\* challan only becomes disputed from pending, by an update of its citizen.
C11_OwnerDisputesPending ==
    [][\A p \in Procs :
         /\ (/\ Steps(p)
             /\ procs'[p].op = "update"
             /\ procs[p].pc = "idle"
             /\ "disputeReason" \in procs'[p].req.body.has
             /\ ChallanExists(procs'[p].req.challanId)
             /\ challans[procs'[p].req.challanId].citizenId = procs'[p].req.user
             /\ challans[procs'[p].req.challanId].status = "pending")
            => procs'[p].pc = "update_apply"
         /\ \A c \in DOMAIN challans :
              (challans'[c].status = "disputed" /\ challans[c].status # "disputed")
              => /\ challans[c].status = "pending"
                 /\ challans'[c].disputeReason
                 /\ \E q \in Procs :
                      /\ Steps(q) /\ procs'[q].op = "update"
                      /\ procs'[q].req.user = challans[c].citizenId]_vars

\* C12: no step changes the fine amount of a persisted challan.
C12_FineNeverChanges ==
    [][\A c \in DOMAIN challans :
         challans'[c].fineAmount = challans[c].fineAmount]_vars

\* C13: every persisted payment has totalAmount = amount + fee, whatever
\* total the handler that created it passed to the constructor.
C13_TotalIsAmountPlusFee ==
    \A i \in DOMAIN payments :
        payments[i].totalAmount = payments[i].amount + payments[i].fee

\* a payment through the PayPal adapter, which reports 500.00 for a fine of
\* 1000, and a facade payment with a fee are both persisted
C13_Witness ==
    /\ \E i \in DOMAIN payments :
         /\ payments[i].gateway = "paypal"
         /\ payments[i].amount # 500 * 1000
         /\ payments[i].totalAmount = payments[i].amount
    /\ \E i \in DOMAIN payments :
         /\ payments[i].fee > 0
         /\ payments[i].totalAmount = payments[i].amount + payments[i].fee

\* the answer of a facade use case is a result object: success with its
\* payload, or failure with a non-empty error string
ResultObject(proc) ==
    LET res == proc.res IN
    /\ "success" \in DOMAIN res
    /\ res.success \in BOOLEAN
    /\ IF res.success
       THEN CASE proc.op = "dashboard" -> {"user", "dashboard"} \subseteq DOMAIN res
              [] proc.op = "list" -> {"challans", "pagination"} \subseteq DOMAIN res
              [] proc.op = "history" -> "payments" \in DOMAIN res
              [] proc.op = "issue" -> proc.loc \in DOMAIN challans
              [] proc.op = "pay" -> proc.loc.saved \in DOMAIN payments
              [] OTHER -> FALSE
       ELSE "error" \in DOMAIN res /\ res.error \in STRING /\ res.error # ""

\* C14: every finished use case of the facade (issue challan, process
\* payment, dashboard, list challans, payment history) has answered with a
\* result object, whatever its collaborators did; none let an exception out.
C14_FacadeAlwaysAnswers ==
    \A p \in Procs : procs[p].pc = "done" => ResultObject(procs[p])

\* a use case whose database query threw has answered failure while another
\* has answered success with its payload
C14_Witness ==
    \E p, q \in Procs :
        /\ procs[p].pc = "done" /\ procs[p].op \in {"dashboard", "list", "history"}
        /\ ~procs[p].res.success /\ procs[p].res.error = "DatabaseError"
        /\ procs[q].pc = "done" /\ procs[q].op = "dashboard"
        /\ procs[q].res.success /\ procs[q].res.dashboard # <<>>
        /\ procs[q].res.dashboard.role = "citizen"
        /\ procs[q].res.dashboard.totalChallans > 0

\* C15: a step of IssueChallan or ProcessPayment that publishes its event
\* answers success and leaves its writes persisted (the new pending challan;
\* the completed payment and the paid challan), whichever channels fail.
C15_NotificationOutcomeIgnored ==
    [][\A p \in Procs :
         (Steps(p) /\ notified' # notified)
         => /\ procs'[p].pc = "done"
            /\ procs'[p].res = Ok
            /\ procs'[p].op \in {"issue", "pay"}
            /\ procs'[p].op = "issue"
               => /\ Len(challans') = Len(challans) + 1
                  /\ procs'[p].loc = Len(challans')
                  /\ challans'[Len(challans')].status = "pending"
            /\ procs'[p].op = "pay"
               => /\ challans'[procs'[p].req.challanId].status = "paid"
                  /\ payments' = payments
                  /\ procs'[p].loc.saved \in DOMAIN payments
                  /\ payments[procs'[p].loc.saved].status = "completed"]_vars

\* a payment has answered success with its payment and paid challan
\* persisted although every channel failed on payment_received
C15_Witness ==
    \E p \in Procs :
        /\ procs[p].pc = "done" /\ procs[p].op = "pay" /\ procs[p].res.success
        /\ Len(challans) = 1 /\ challans[1].status = "paid"
        /\ Len(payments) = 1 /\ payments[1].status = "completed"
        /\ lastPublish.throwing = Channels
        /\ \A c \in Channels : Len(notified[c]) = 2

Classified(p, type) ==
    /\ procs[p].pc = "done"
    /\ procs[p].op = "classify"
    /\ procs[p].req.violationType = type

\* C17: a speeding violation is fined 1000 when the speed is more than 20
\* over the limit, 750 when more than 10 and at most 20 over, 500 otherwise,
\* and is labelled "Speeding".
C17_SpeedingFine ==
    \A p \in Procs :
        Classified(p, "Speeding")
        => LET over == procs[p].req.actualSpeed - procs[p].req.speedLimit IN
           /\ procs[p].res.success
           /\ procs[p].loc.violationType = "Speeding"
           /\ procs[p].loc.fineAmount =
                (IF over > 20 THEN 1000 ELSE IF over > 10 /\ over <= 20 THEN 750 ELSE 500)

\* 50/80 was fined 1000, 50/70 (exactly 20 over) 750
C17_Witness ==
    \E p, q \in Procs :
        /\ Classified(p, "Speeding") /\ procs[p].req = Speeding(50, 80)
        /\ procs[p].loc.fineAmount = 1000
        /\ Classified(q, "Speeding") /\ procs[q].req = Speeding(50, 70)
        /\ procs[q].loc.fineAmount = 750

\* C18: a parking violation is fined the base of its zone (no-parking 200,
\* handicap 1000, fire-lane 1500, expired-meter 100, any other zone 200),
\* times 1.5 exactly when it lasted more than 120 minutes, and is labelled
\* "Wrong Parking".
C18_ParkingFine ==
    \A p \in Procs :
        Classified(p, "Wrong Parking")
        => LET zone == procs[p].req.zoneType
               base == IF zone = "no-parking" THEN 200
                       ELSE IF zone = "handicap" THEN 1000
                       ELSE IF zone = "fire-lane" THEN 1500
                       ELSE IF zone = "expired-meter" THEN 100
                       ELSE 200
           IN /\ procs[p].res.success
              /\ procs[p].loc.violationType = "Wrong Parking"
              /\ procs[p].req.duration > 120 => 2 * procs[p].loc.fineAmount = 3 * base
              /\ procs[p].req.duration <= 120 => procs[p].loc.fineAmount = base

\* handicap for 150 minutes was fined 1500, an unlisted zone for exactly 120
\* minutes 200
C18_Witness ==
    \E p, q \in Procs :
        /\ Classified(p, "Wrong Parking") /\ procs[p].req = Parking("handicap", 150)
        /\ procs[p].loc.fineAmount = 1500
        /\ Classified(q, "Wrong Parking") /\ procs[q].req = Parking("loading-zone", 120)
        /\ procs[q].loc.fineAmount = 200

\* C19: a red-light violation is fined 1500 when the vehicle passed more
\* than 3 seconds after red, 1000 otherwise, and is labelled "Red Light".
C19_RedLightFine ==
    \A p \in Procs :
        Classified(p, "Red Light")
        => /\ procs[p].res.success
           /\ procs[p].loc.violationType = "Red Light"
           /\ procs[p].loc.fineAmount =
                (IF procs[p].req.timeAfterRed > 3 THEN 1500 ELSE 1000)

\* 5 seconds was fined 1500, exactly 3 seconds 1000
C19_Witness ==
    \E p, q \in Procs :
        /\ Classified(p, "Red Light") /\ procs[p].req = RedLight(5)
        /\ procs[p].loc.fineAmount = 1500
        /\ Classified(q, "Red Light") /\ procs[q].req = RedLight(3)
        /\ procs[q].loc.fineAmount = 1000

\* C20: a helmet violation with passengerCount >= 1 is fined 300 times
\* passengerCount and labelled "No Helmet", and the challan issued for it
\* stores that fine.
C20_HelmetFine ==
    \A p \in Procs :
        /\ (Classified(p, "No Helmet") /\ procs[p].req.passengerCount >= 1)
           => /\ procs[p].res.success
              /\ procs[p].loc.violationType = "No Helmet"
              /\ procs[p].loc.fineAmount = 300 * procs[p].req.passengerCount
        /\ (/\ procs[p].pc = "done" /\ procs[p].op = "issue" /\ procs[p].res.success
            /\ procs[p].req.data.violationType = "No Helmet"
            /\ procs[p].req.data.passengerCount >= 1)
           => /\ challans[procs[p].loc].violationType = "No Helmet"
              /\ challans[procs[p].loc].fineAmount = 300 * procs[p].req.data.passengerCount

\* two riders were fined 600, and the challan issued for them stores 600
C20_Witness ==
    \E p, q \in Procs :
        /\ Classified(p, "No Helmet") /\ procs[p].req = Helmet(2)
        /\ procs[p].loc.fineAmount = 600
        /\ procs[q].pc = "done" /\ procs[q].op = "issue" /\ procs[q].res.success
        /\ procs[q].req.data = Helmet(2)
        /\ challans[procs[q].loc].fineAmount = 600

\* C21: every kind of the closed set is accepted by the factory, Mobile
\* Usage with the fine 1000 and Other with customFine when truthy and 500
\* otherwise; a classification is refused only for a kind outside the set.
C21_ClosedSetAccepted ==
    \A p \in Procs :
        (procs[p].pc = "done" /\ procs[p].op = "classify")
        => LET type == procs[p].req.violationType IN
           /\ type \in ViolationTypeEnum <=> procs[p].res.success
           /\ type = "Mobile Usage"
              => procs[p].res.success /\ procs[p].loc.fineAmount = 1000
           /\ type = "Other"
              => /\ procs[p].res.success
                 /\ procs[p].loc.fineAmount =
                      (IF procs[p].req.customFine # 0 THEN procs[p].req.customFine
                       ELSE 500)

\* a finished call of the dispatcher
Dispatched(p) == procs[p].pc = "done" /\ procs[p].op = "dispatch"

\* C22: the reported fee is the larger of 2.9% of the amount and 10 for
\* credit_card, the smaller of 1.5% and 25 for debit_card, 0 for upi, and the
\* reported total is amount + fee (money in thousandths).
C22_FeeAndTotal ==
    \A p \in Procs :
        (Dispatched(p) /\ procs[p].res.success)
        => LET amount == procs[p].req.amount
               fee == procs[p].loc.fee
           IN /\ procs[p].req.method = "credit_card"
                 => /\ fee >= 10 * 1000 /\ fee >= amount * 29
                    /\ fee \in {10 * 1000, amount * 29}
              /\ procs[p].req.method = "debit_card"
                 => /\ fee <= 25 * 1000 /\ fee <= amount * 15
                    /\ fee \in {25 * 1000, amount * 15}
              /\ procs[p].req.method = "upi" => fee = 0
              /\ procs[p].loc.amount = amount * 1000 + fee

\* 1000 by credit card was charged 29 and totals 1029; 344 by credit card was
\* charged the minimum of 10
C22_Witness ==
    \E p, q \in Procs :
        /\ Dispatched(p) /\ procs[p].res.success
        /\ procs[p].req.method = "credit_card" /\ procs[p].req.amount = 1000
        /\ procs[p].loc.fee = 29 * 1000 /\ procs[p].loc.amount = 1029 * 1000
        /\ Dispatched(q) /\ procs[q].res.success
        /\ procs[q].req.method = "credit_card" /\ procs[q].req.amount = 344
        /\ procs[q].loc.fee = 10 * 1000

\* the rule of each supported method, as the dispatcher's contract states it
C23_DetailsAccepted(method, d) ==
    CASE method = "credit_card" -> d.cardNumber >= 16 /\ d.cvv >= 3 /\ d.holderName
      [] method = "debit_card" -> d.cardNumber >= 16 /\ d.pin = 4
      [] method = "upi" -> Includes(d.upiId, "@") /\ d.pin = 4
      [] OTHER -> FALSE

\* C23: the dispatcher succeeds exactly when the method is credit_card,
\* debit_card or upi and the details satisfy that method's rule; otherwise
\* it fails with an error and no result.
C23_SucceedsExactlyWhenValid ==
    \A p \in Procs :
        Dispatched(p)
        => /\ procs[p].res.success
              <=> C23_DetailsAccepted(procs[p].req.method, procs[p].req.details)
           /\ procs[p].res.success => procs[p].loc.success
           /\ ~procs[p].res.success => procs[p].res.error # "" /\ procs[p].loc = <<>>

\* a debit card with a 5-character PIN was refused while the same card with
\* a 4-character PIN and no holder name was accepted
C23_Witness ==
    \E p, q \in Procs :
        /\ Dispatched(p) /\ ~procs[p].res.success
        /\ procs[p].req.method = "debit_card"
        /\ procs[p].req.details = [DetailsOk EXCEPT !.pin = 5]
        /\ procs[p].res.error = "Invalid PIN"
        /\ Dispatched(q) /\ procs[q].res.success
        /\ procs[q].req.method = "debit_card"
        /\ procs[q].req.details = [DetailsOk EXCEPT !.holderName = FALSE]

\* C24: a GetDashboard step changes no challan and no payment, registers,
\* removes and notifies no channel (user records are never written), and its
\* figures count exactly the challans whose citizenId, for a citizen, or
\* officerId, for an officer, is the user.
C24_DashboardReadOnly ==
    [][\A p \in Procs :
         (Steps(p) /\ procs'[p].op = "dashboard")
         => LET userId == procs'[p].req.userId
                res == procs'[p].res
                mine == {i \in DOMAIN challans : challans[i].citizenId = userId}
                issued == {i \in DOMAIN challans : challans[i].officerId = userId}
            IN  /\ UNCHANGED <<challans, payments, observers, notified, lastPublish>>
                /\ (res.success /\ users[userId].role = "citizen")
                   => /\ res.dashboard.totalChallans = Cardinality(mine)
                      /\ res.dashboard.pendingChallans =
                           Cardinality({i \in mine : challans[i].status = "pending"})
                      /\ res.dashboard.paidChallans =
                           Cardinality({i \in mine : challans[i].status = "paid"})
                      /\ res.dashboard.totalFineAmount = TotalFineAmount(mine)
                /\ (res.success /\ users[userId].role = "officer")
                   => res.dashboard.totalIssued = Cardinality(issued)]_vars

\* citizen c1 was shown one challan, paid, while a second challan belongs to
\* c2, and nothing was published for the dashboard
C24_Witness ==
    \E p \in Procs :
        /\ procs[p].pc = "done" /\ procs[p].op = "dashboard" /\ procs[p].res.success
        /\ procs[p].req.userId = "c1"
        /\ Len(challans) = 2
        /\ challans[1].citizenId = "c1" /\ challans[1].status = "paid"
        /\ challans[2].citizenId = "c2"
        /\ procs[p].res.dashboard.totalChallans = 1
        /\ procs[p].res.dashboard.paidChallans = 1
        /\ procs[p].res.dashboard.totalFineAmount = challans[1].fineAmount
        /\ \A c \in Channels : Len(notified[c]) = 3

\* request slot p holds a reference to a ConfigurationManager
HoldsConfig(p) == procs[p].op = "config" /\ procs[p].pc \in {"config", "done"}

\* C25: every reference obtained, by getInstance or by new, is the one
\* instance, and right after set(key, v) has stored v through one reference,
\* get(key) returns v through every reference held.
C25_OneInstance ==
    [][/\ \A p \in Procs :
            HoldsConfig(p)' => procs'[p].loc.ref = configuration'.instance
       /\ \A p \in Procs :
            (/\ procs[p].pc = "config" /\ procs'[p].pc = "done"
             /\ "value" \in DOMAIN procs'[p].req
             /\ procs'[p].res.success)
            => \A q \in Procs :
                 HoldsConfig(q)'
                 => ConfigGet(configuration'.objects[procs'[q].loc.ref],
                              procs'[p].req.key)
                      = ValueNode(procs'[p].req.value)]_vars

\* one caller used new and stored test.value = 1; the other used
\* getInstance and read test.value as 1
C25_Witness ==
    \E p, q \in Procs :
        /\ procs[p].pc = "done" /\ procs[p].op = "config"
        /\ procs[p].loc.by = "new" /\ procs[p].res.success
        /\ procs[p].req = [key |-> <<"test", "value">>, value |-> 1]
        /\ procs[q].pc = "done" /\ procs[q].op = "config"
        /\ procs[q].loc.by = "getInstance"
        /\ procs[q].req = [key |-> <<"test", "value">>]
        /\ procs[q].res.success
        /\ procs[q].res.value = ValueNode(1)

\* C26: the refund permission check lets an admin through and refuses every
\* other role with nothing changed.
C26_RefundAdminOnly ==
    [][\A p \in Procs :
         (Steps(p) /\ procs'[p].op = "refund" /\ procs[p].pc = "idle")
         => /\ users[procs'[p].req.user].role = "admin"
               => ~(procs'[p].pc = "done" /\ procs'[p].res.status = 403)
            /\ users[procs'[p].req.user].role # "admin"
               => /\ procs'[p].pc = "done" /\ procs'[p].res.status = 403
                  /\ UNCHANGED <<challans, payments>>]_vars

\* the completed payments that refer to challan c (C1 has CompletedPayments
\* for the successful calls; this counts the documents)
CompletedFor(c) ==
    {i \in DOMAIN payments : payments[i].challanId = c /\ payments[i].status = "completed"}

\* C27: with the payment operations run one at a time and every save
\* succeeding, no challan has two completed payments, and between operations
\* a challan is paid exactly when one completed payment refers to it.
C27_PaidIffOneCompletedPayment ==
    \A c \in DOMAIN challans :
        /\ Cardinality(CompletedFor(c)) <= 1
        /\ (\A p \in Procs : procs[p].pc \in {"idle", "done"})
           => (challans[c].status = "paid" <=> Cardinality(CompletedFor(c)) = 1)

\* challan 1 is paid with its one completed payment, a second payment of it
\* has been refused, and challan 2 is pending without a payment
C27_Witness ==
    \E p \in Procs :
        /\ procs[p].pc = "done" /\ procs[p].op \in {"pay", "gateway"}
        /\ procs[p].req.challanId = 1 /\ ~procs[p].res.success
        /\ Len(challans) = 2
        /\ challans[1].status = "paid" /\ Cardinality(CompletedFor(1)) = 1
        /\ challans[2].status = "pending" /\ CompletedFor(2) = {}

\* the gateway refund was invoked for the refund request r: its handler is
\* past the gateway call, or has answered with the refund made
GatewayRefunded(r) ==
    /\ r.op = "refund"
    /\ \/ r.pc \in {"refund_save_payment", "refund_save_challan"}
       \/ r.pc = "done" /\ r.res.error \in {"", "PersistenceError"}

UnexpiredGrants(decoratorConfigs, t) ==
    UNION {decoratorConfigs[i].permissions :
             i \in {j \in DOMAIN decoratorConfigs :
                      /\ decoratorConfigs[j].type = "temporary"
                      /\ t <= decoratorConfigs[j].expiryDate}}

\* C29: the permissions a decorated user answers with contain every
\* permission of the user's role, contain the permissions of each temporary
\* grant of the stack that has not expired at the time of the call, and
\* contain a permission of an expired grant only if the role, the supervisor
\* decorator or an unexpired grant gives it.
C29_DecoratedSuperset ==
    \A p \in Procs :
        (procs[p].pc = "done" /\ procs[p].op = "decorate")
        => LET req == procs[p].req
               res == procs[p].res
           IN  /\ GetPermissions(req.user) \subseteq res.permissions
               /\ UnexpiredGrants(req.configs, res.at) \subseteq res.permissions
               /\ \A i \in DOMAIN req.configs :
                     (req.configs[i].type = "temporary"
                         /\ res.at > req.configs[i].expiryDate)
                     => (req.configs[i].permissions \cap res.permissions)
                            \subseteq (GetPermissions(req.user)
                                       \cup SupervisorAdditionalPermissions
                                       \cup UnexpiredGrants(req.configs, res.at))

\* slot p takes a request of user u through the rate limiter
Limited(p, u) ==
    /\ procs[p].pc = "idle"
    /\ procs'[p].pc = "done"
    /\ procs'[p].op = "ratelimit"
    /\ procs'[p].req.user = u

\* C30: a request of a user who has no window, or whose window's resetTime
\* has passed, is passed on and starts a window with count 1; within a
\* window a request is passed on and counted while fewer than limit.requests
\* were, and is otherwise answered 429, not passed on and not counted; so a
\* window never counts more than limit.requests requests; and a request
\* leaves the windows of the other users as they were.
C30_AtMostLimitPerWindow ==
    [][/\ \A p \in Procs : \A u \in UserIds :
            Limited(p, u)
            => LET old == userRequests[u]
                   new == userRequests'[u]
                   limit == LimitOf(users[u].role)
                   passed == procs'[p].res.success
               IN  /\ \A v \in UserIds \ {u} : userRequests'[v] = userRequests[v]
                   /\ (~old.has \/ now > old.resetTime)
                      => /\ passed
                         /\ new = [has |-> TRUE, count |-> 1,
                                   resetTime |-> now + limit.window]
                   /\ (old.has /\ now <= old.resetTime /\ old.count < limit.requests)
                      => /\ passed
                         /\ new = [old EXCEPT !.count = old.count + 1]
                   /\ (old.has /\ now <= old.resetTime /\ old.count >= limit.requests)
                      => /\ ~passed
                         /\ procs'[p].res.status = 429
                         /\ new = old
       /\ \A u \in UserIds :
            userRequests'[u].has
            => /\ userRequests'[u].count >= 1
               /\ userRequests'[u].count <= LimitOf(users[u].role).requests]_vars

\* a citizen whose window is full is answered 429 while another citizen's
\* window, opened in the meantime, holds one request
C30_Witness ==
    \E p \in Procs :
        /\ procs[p].pc = "done" /\ procs[p].op = "ratelimit"
        /\ procs[p].req.user = "c1"
        /\ procs[p].res.status = 429
        /\ userRequests["c1"].count = CitizenRequests
        /\ procs[p].req.at <= userRequests["c1"].resetTime
        /\ userRequests["c2"].has
        /\ userRequests["c2"].count = 1
        /\ userRequests["c2"].resetTime > userRequests["c1"].resetTime

============================================================================
